---- MODULE Spec2Model ----
(***************************************************************************)
(* Model of the PDF content pipeline of backend/: the image filter of      *)
(* extract.py (PDFExtractor), the analysis call and the batched image      *)
(* description call of openai_api.py (OpenAIHandler), the OCR pass of      *)
(* ocr.py (OCRProcessor) and the request handler of main.py.               *)
(*                                                                         *)
(* Seven specifications share the module:                                  *)
(*   Spec          PDFExtractor.extract_content_from_multiple, the calls   *)
(*                 into PyMuPDF succeeding (a render may fail)             *)
(*   SpecFilter    the same actions, started on single-candidate pages     *)
(*                 whose sizes sit around the filter's thresholds          *)
(*   SpecFaults    the same run when get_text, get_images and              *)
(*                 extract_image may raise, with undecodable candidates    *)
(*   SpecAnalyze   OpenAIHandler.process_content under its retry decorator *)
(*   SpecDescribe  OpenAIHandler.batch_generate_image_descriptions         *)
(*   SpecOcr       OCRProcessor.process_images (ocr.py)                    *)
(*   SpecServer    the event loop of main.py: two process_pdf requests and *)
(*                 the cleanup task                                        *)
(***************************************************************************)
EXTENDS Integers, Sequences, FiniteSets, TLC

(***************************************************************************)
(* Bounds of the model (not program constants).                            *)
(***************************************************************************)
MaxDocs == 2
MaxRunPages == 2
MaxCands == 4
MaxImagesEnv == 2

(***************************************************************************)
(* Program constants of extract.py.                                        *)
(***************************************************************************)
min_size == 600
max_images_per_page == 3
RelPercent == 15

(***************************************************************************)
(* Image bytes.  The bytes of an embedded image determine what PIL reads   *)
(* from them: whether they decode and, if so, the size.  hashlib.md5 is    *)
(* modelled as injective on the bytes of the model (no collisions), so the *)
(* digest of a candidate is its bytes value.                               *)
(***************************************************************************)
Bytes(tag, w, h, decodes) == [tag |-> tag, w |-> w, h |-> h, decodes |-> decodes]

RunPool ==
    { Bytes("A", 600, 600, TRUE), Bytes("B", 800, 600, TRUE),
      Bytes("C", 600, 800, TRUE), Bytes("D", 4000, 3000, TRUE),
      Bytes("S", 599, 600, TRUE) }

ThresholdDims == 599..604

ThresholdPool ==
    { Bytes("T", w, h, TRUE) : w \in ThresholdDims, h \in ThresholdDims }
    \cup { Bytes("U", 600, 600, FALSE) }

\* page.rect.width, page.rect.height
RunRects == { <<2000, 1200>> }
ThresholdRects == { <<2000, 1200>>, <<1005, 2412>> }

SeqsUpTo(S, n) == UNION { [1..k -> S] : k \in 0..n }

VARIABLES
    \* environment of one extraction run
    pool,            \* image bytes the documents of this run may embed
    rects,           \* page sizes the documents of this run may have
    cands_per_page,  \* most embedded images on one page
    pages_left,      \* pages the remaining documents of the run may still have
    env_MAX_IMAGES,  \* os.environ["MAX_IMAGES"], as an integer
    n_pdfs,          \* len(pdf_paths)
    \* extract_content_from_multiple
    xpc,             \* position of the extraction run
    pdf_idx,
    combined_result, \* [text, images, pages], or [error]
    skipped_pdfs,    \* the documents whose extraction gave an error value
    \* extract_content
    n_pages,         \* len(pdf_document)
    page_idx,
    result,          \* [text, images, pages] of the current document
    render_attempts, \* history: the pages _extract_full_page was called for
    \* _extract_meaningful_images
    page_rect,
    image_hashes,
    img_idx,
    images_from_this_page,
    page_skipped,    \* TRUE when the page hit the early return of line 91
    page_errors,     \* candidates of the page that line 165 logged an error for
    \* history of the current page: page.get_images(full=True) is revealed one
    \* image per loop iteration; page_seen holds the bytes revealed so far and
    \* page_qualifying the revealed images that meet the filter's thresholds
    page_seen,
    page_qualifying

xvars == << pool, rects, cands_per_page, pages_left, env_MAX_IMAGES, n_pdfs,
            xpc, pdf_idx, combined_result, skipped_pdfs, n_pages, page_idx,
            result, render_attempts, page_rect, image_hashes, img_idx,
            images_from_this_page, page_skipped, page_errors, page_seen,
            page_qualifying >>

VARIABLES
    \* process_content and its retry decorator
    apc,             \* position of the call
    extracted_text,  \* argument: the source text
    schema,          \* argument, then local: the output schema
    images,          \* argument: the enriched images
    combined_text,   \* local of process_content
    request,         \* the messages of the last chat.completions.create
    response,        \* content of the reply being parsed
    raised,          \* exception raised inside the try block
    api_script,      \* what the service does on its 1st, 2nd, 3rd call
    api_calls,       \* calls made to the service
    attempt_number,  \* attempt counter of the retry decorator
    outcome          \* what process_content gave its caller

avars == << apc, extracted_text, schema, images, combined_text, request,
            response, raised, api_script, api_calls, attempt_number, outcome >>

VARIABLES
    \* batch_generate_image_descriptions and its retry decorator
    dpc,              \* position of the call
    d_images,         \* argument: the images, each named by its identity
    batch_start,      \* the loop variable i of line 190
    all_descriptions, \* local of the splitting branch
    replies,          \* history of the service calls: batch, reply, parsed list
    d_raised,         \* exception raised inside the try block
    d_attempt_number, \* attempt counter of the retry decorator
    d_outcome         \* what batch_generate_image_descriptions gave its caller

dvars == << dpc, d_images, batch_start, all_descriptions, replies, d_raised,
            d_attempt_number, d_outcome >>

VARIABLES
    \* OCRProcessor.process_images and _add_image_descriptions
    opc,            \* position of the call
    o_images,       \* argument of process_images: the extracted images
    o_result,       \* local result of process_images (images of the 2nd pass)
    o_batch_size,   \* local batch_size of _add_image_descriptions
    o_to_process,   \* len(images_to_process)
    o_i,            \* loop variable i of line 93
    o_j,            \* loop variable j of line 97
    o_events,       \* history: images handled, calls attempted, sleeps
    o_outcome       \* what process_images gave its caller

ovars == << opc, o_images, o_result, o_batch_size, o_to_process, o_i, o_j,
            o_events, o_outcome >>

VARIABLES
    \* the asyncio event loop of main.py
    loop_running,   \* the coroutine that holds the loop's thread
    task_state,     \* state of each coroutine of the server
    cleanup_passes  \* passes made by cleanup_old_sessions

svars == << loop_running, task_state, cleanup_passes >>

vars == << xvars, avars, dvars, ovars, svars >>

EmptyResult == [text |-> << >>, images |-> << >>, pages |-> << >>]

(***************************************************************************)
(* The checks of _extract_meaningful_images, one operator per condition.   *)
(***************************************************************************)
\* line 89: len(images_list) >= max_images_per_doc
DocQuotaReached_strict(images_list) == Len(images_list) > env_MAX_IMAGES
DocQuotaReached(images_list) == Len(images_list) >= env_MAX_IMAGES

\* line 105: images_from_this_page >= max_images_per_page
PageQuotaReached_late(n) == n > max_images_per_page
PageQuotaReached(n) == n >= max_images_per_page

\* line 120: img_hash in image_hashes
IsDuplicate(img_hash, hashes) == img_hash \in hashes

\* lines 128-129: Image.open raises on bytes that PIL cannot read
DecodeFails_never(b) == FALSE
DecodeFails(b) == ~b.decodes

\* line 132: img_width < min_size or img_height < min_size
TooSmall_exclusive(img_width, img_height) ==
    img_width <= min_size \/ img_height <= min_size
TooSmall(img_width, img_height) == img_width < min_size \/ img_height < min_size

\* lines 137-140: rel_size = (w*h)/(pw*ph); rel_size < 0.15.  For integral
\* sizes below 2^31 the float comparison agrees with the exact one.
RelTooSmall(img_width, img_height, page_width, page_height) ==
    100 * (img_width * img_height) < RelPercent * (page_width * page_height)

\* lines 153-159: the dict appended to images_list; the uuid of the file name
\* is left out, hash records the bytes saved under that name.
ImageInfo(pg, idx, b) ==
    [page |-> pg + 1,
     width |-> b.w, height |-> b.h, hash |-> b]

(***************************************************************************)
(* What the filter's rules call a qualifying candidate of a page: its      *)
(* bytes decode, they did not occur earlier on the page, and the size      *)
(* meets the absolute and the relative threshold.  Written from the rules, *)
(* independently of the order in which the code applies them.              *)
(***************************************************************************)
Qualifies(b, rect, earlier) ==
    /\ b \notin earlier
    /\ b.decodes
    /\ b.w >= min_size /\ b.h >= min_size
    /\ 100 * (b.w * b.h) >= RelPercent * (rect[1] * rect[2])

RECURSIVE QualifyingOf(_, _, _)
QualifyingOf(il, rect, earlier) ==
    IF il = << >> THEN << >>
    ELSE (IF Qualifies(Head(il), rect, earlier) THEN << Head(il) >> ELSE << >>)
         \o QualifyingOf(Tail(il), rect, earlier \cup {Head(il)})

\* lines 34, 76 and 213-215: the error value that extract_content returns
\* for document idx, with what failed in the place of the message
ErrorValue(idx, what) == [pdf_index |-> idx, error |-> what]

xInit(p, r, c) ==
    /\ pool = p
    /\ rects = r
    /\ cands_per_page = c
    /\ pages_left = MaxRunPages
    /\ env_MAX_IMAGES \in 1..MaxImagesEnv
    /\ n_pdfs \in 0..MaxDocs
    /\ xpc = "start"
    /\ pdf_idx = 0
    /\ combined_result = EmptyResult
    /\ skipped_pdfs = {}
    /\ n_pages = 0
    /\ page_idx = 0
    /\ result = EmptyResult
    /\ render_attempts = << >>
    /\ page_rect = <<0, 0>>
    /\ image_hashes = {}
    /\ img_idx = 0
    /\ images_from_this_page = 0
    /\ page_skipped = FALSE
    /\ page_errors = {}
    /\ page_seen = {}
    /\ page_qualifying = << >>

\* the argument left out, schemas.DEFAULT_OUTPUT_SCHEMA and a schema of the
\* caller; of a schema the model keeps the list "required"
None == [is |-> "None"]

DEFAULT_OUTPUT_SCHEMA ==
    [is |-> "schema",
     required |-> { "summary", "key_points", "insights", "inside_ideo_client",
                    "inside_ideo_title", "inside_ideo_tagline",
                    "inside_ideo_challenge", "inside_ideo_design",
                    "inside_ideo_impact" }]

CustomSchema == [is |-> "schema", required |-> { "title", "author" }]

SchemaArgs == { None, CustomSchema }

\* no process_content call in progress
aIdle ==
    /\ apc = "idle"
    /\ extracted_text = << >>
    /\ schema = None
    /\ images = << >>
    /\ combined_text = << >>
    /\ request = << >>
    /\ response = << >>
    /\ raised = "none"
    /\ api_script = << >>
    /\ api_calls = 0
    /\ attempt_number = 0
    /\ outcome = [kind |-> "none"]

\* no batch_generate_image_descriptions call in progress
dIdle ==
    /\ dpc = "idle"
    /\ d_images = << >>
    /\ batch_start = 0
    /\ all_descriptions = << >>
    /\ replies = << >>
    /\ d_raised = "none"
    /\ d_attempt_number = 0
    /\ d_outcome = [kind |-> "none"]

\* no process_images call in progress
oIdle ==
    /\ opc = "idle"
    /\ o_images = << >>
    /\ o_result = << >>
    /\ o_batch_size = 0
    /\ o_to_process = 0
    /\ o_i = 0
    /\ o_j = 0
    /\ o_events = << >>
    /\ o_outcome = [kind |-> "none"]

Tasks == { "doc1", "doc2", "cleanup" }

\* the server is not running
sIdle ==
    /\ loop_running = "none"
    /\ task_state = [t \in Tasks |-> "absent"]
    /\ cleanup_passes = 0

Init == xInit(RunPool, RunRects, MaxCands) /\ aIdle /\ dIdle /\ oIdle /\ sIdle

InitFilter == xInit(ThresholdPool, ThresholdRects, 1) /\ aIdle /\ dIdle /\ oIdle /\ sIdle

env_unchanged ==
    /\ UNCHANGED << pool, rects, cands_per_page, env_MAX_IMAGES, n_pdfs >>
    /\ UNCHANGED << avars, dvars, ovars, svars >>

page_unchanged == UNCHANGED << page_rect, image_hashes, img_idx,
                               images_from_this_page, page_skipped,
                               page_errors, page_seen, page_qualifying >>

\* extract_content_from_multiple, lines 195-205
StartRun ==
    /\ xpc = "start"
    /\ IF n_pdfs = 0
         THEN /\ combined_result' = [error |-> "No PDF files provided"]
              /\ xpc' = "done"
         ELSE /\ combined_result' = EmptyResult
              /\ xpc' = "pdf"
    /\ UNCHANGED << pdf_idx, skipped_pdfs, n_pages, page_idx, result,
                    render_attempts, pages_left >>
    /\ page_unchanged /\ env_unchanged

\* one iteration of the loop of line 207 up to the call of extract_content and
\* its lines 32-56: a file that is missing or that fitz cannot open gives an
\* error value and the document is skipped (lines 213-215)
BeginDoc ==
    /\ xpc = "pdf"
    /\ pdf_idx < n_pdfs
    /\ \E opens \in BOOLEAN, np \in 0..pages_left :
         IF opens
           THEN /\ result' = EmptyResult
                /\ n_pages' = np
                /\ pages_left' = pages_left - np
                /\ page_idx' = 0
                /\ xpc' = "page"
                /\ UNCHANGED << pdf_idx, skipped_pdfs >>
           ELSE /\ skipped_pdfs' = skipped_pdfs \cup { ErrorValue(pdf_idx, "open") }
                /\ pdf_idx' = pdf_idx + 1
                /\ xpc' = "pdf"
                /\ UNCHANGED << result, n_pages, page_idx, pages_left >>
    /\ render_attempts' = << >>
    /\ UNCHANGED combined_result
    /\ page_unchanged /\ env_unchanged

\* extract_content lines 59-65 and _extract_meaningful_images lines 81-101:
\* the page text is appended, the hash set is created, and the page is left
\* at once when the document already holds max_images_per_doc images.  The
\* images of a page that is left at once are never listed by the code; the
\* history records which of them would have qualified.
BeginPage ==
    /\ xpc = "page"
    /\ page_idx < n_pages
    /\ \E r \in rects : page_rect' = r
    /\ result' = [result EXCEPT !.text = Append(@, <<"page", page_idx + 1>>)]
    /\ image_hashes' = {}
    /\ img_idx' = 0
    /\ images_from_this_page' = 0
    /\ page_errors' = {}
    /\ page_seen' = {}
    /\ IF DocQuotaReached(result.images)
         THEN /\ page_skipped' = TRUE
              /\ xpc' = "render"
              /\ \E il \in SeqsUpTo(pool, cands_per_page) :
                    page_qualifying' = QualifyingOf(il, page_rect', {})
         ELSE /\ page_skipped' = FALSE
              /\ xpc' = "img"
              /\ page_qualifying' = << >>
    /\ UNCHANGED << pdf_idx, combined_result, skipped_pdfs, n_pages, page_idx,
                    render_attempts, pages_left >>
    /\ env_unchanged

\* one iteration of the loop of line 103, or its end.  more says whether
\* image_list has an element at img_idx, b is that element.
ProcessCandidate ==
    /\ xpc = "img"
    /\ \E more \in BOOLEAN, b \in pool :
        /\ more => img_idx < cands_per_page
        /\ IF ~more
             THEN \* loop exhausted
                  /\ xpc' = "render"
                  /\ UNCHANGED << result, image_hashes, img_idx, page_errors,
                                  images_from_this_page, page_seen, page_qualifying >>
             ELSE /\ page_seen' = page_seen \cup {b}
                  /\ page_qualifying' =
                        IF Qualifies(b, page_rect, page_seen)
                          THEN Append(page_qualifying, b) ELSE page_qualifying
                  /\ IF PageQuotaReached(images_from_this_page)
                       THEN \* break of line 107
                            /\ xpc' = "render"
                            /\ UNCHANGED << result, image_hashes, img_idx,
                                            page_errors, images_from_this_page >>
                       ELSE /\ xpc' = "img"
                            /\ img_idx' = img_idx + 1
                            /\ IF IsDuplicate(b, image_hashes)
                                 THEN UNCHANGED << result, image_hashes, page_errors,
                                                   images_from_this_page >>
                                 ELSE /\ image_hashes' = image_hashes \cup {b}
                                      /\ IF DecodeFails(b)
                                           THEN \* lines 164-165
                                                /\ page_errors' = page_errors \cup {img_idx + 1}
                                                /\ UNCHANGED << result, images_from_this_page >>
                                           ELSE IF \/ TooSmall(b.w, b.h)
                                                   \/ RelTooSmall(b.w, b.h, page_rect[1], page_rect[2])
                                           THEN UNCHANGED << result, page_errors,
                                                             images_from_this_page >>
                                           ELSE /\ result' = [result EXCEPT !.images =
                                                      Append(@, ImageInfo(page_idx, img_idx, b))]
                                                /\ images_from_this_page' =
                                                      images_from_this_page + 1
                                                /\ UNCHANGED page_errors
    /\ UNCHANGED << pdf_idx, combined_result, skipped_pdfs, n_pages, page_idx,
                    render_attempts, page_rect, page_skipped, pages_left >>
    /\ env_unchanged

\* _extract_full_page, lines 167-191, and the step to the next page; the
\* locals of _extract_meaningful_images are gone by then
RenderPage ==
    /\ xpc = "render"
    /\ \E rendered \in BOOLEAN :
         result' = IF rendered
                     THEN [result EXCEPT !.pages = Append(@, [page |-> page_idx + 1])]
                     ELSE result
    /\ render_attempts' = Append(render_attempts, page_idx + 1)
    /\ page_idx' = page_idx + 1
    /\ xpc' = "page"
    /\ page_rect' = <<0, 0>>
    /\ image_hashes' = {}
    /\ img_idx' = 0
    /\ images_from_this_page' = 0
    /\ page_skipped' = FALSE
    /\ page_errors' = {}
    /\ page_seen' = {}
    /\ page_qualifying' = << >>
    /\ UNCHANGED << pdf_idx, combined_result, skipped_pdfs, n_pages, pages_left >>
    /\ env_unchanged

TagPdf(entries, idx) ==
    [i \in 1..Len(entries) |->
        [f \in DOMAIN entries[i] \cup {"pdf_index"} |->
            IF f = "pdf_index" THEN idx ELSE entries[i][f]]]

\* extract_content line 72 and extract_content_from_multiple lines 217-230
EndDoc ==
    /\ xpc = "page"
    /\ page_idx >= n_pages
    /\ combined_result' =
         [text   |-> combined_result.text \o << <<"pdf", pdf_idx + 1>> >> \o result.text,
          images |-> combined_result.images \o TagPdf(result.images, pdf_idx),
          pages  |-> combined_result.pages \o TagPdf(result.pages, pdf_idx)]
    /\ pdf_idx' = pdf_idx + 1
    /\ xpc' = "pdf"
    /\ result' = EmptyResult
    /\ render_attempts' = << >>
    /\ n_pages' = 0
    /\ page_idx' = 0
    /\ UNCHANGED << skipped_pdfs, pages_left >>
    /\ page_unchanged /\ env_unchanged

\* extract_content_from_multiple line 232
EndRun ==
    /\ xpc = "pdf"
    /\ pdf_idx >= n_pdfs
    /\ xpc' = "done"
    /\ UNCHANGED << pdf_idx, combined_result, skipped_pdfs, n_pages, page_idx,
                    result, render_attempts, pages_left >>
    /\ page_unchanged /\ env_unchanged

Next ==
    \/ StartRun
    \/ BeginDoc
    \/ BeginPage
    \/ ProcessCandidate
    \/ RenderPage
    \/ EndDoc
    \/ EndRun

Spec == Init /\ [][Next]_vars

SpecFilter == InitFilter /\ [][Next]_vars

(***************************************************************************)
(* The same run when the calls into PyMuPDF may fail.  The calls of        *)
(* lines 61, 97 and 110 are made outside the try of lines 116-165, so an   *)
(* exception of theirs leaves _extract_meaningful_images and is caught at  *)
(* line 74: extract_content returns an error value and the loop of line    *)
(* 207 goes on with the next document.                                     *)
(***************************************************************************)
MaxFaultCands == 3

FaultPool ==
    { Bytes("A", 600, 600, TRUE), Bytes("B", 800, 600, TRUE),
      Bytes("S", 599, 600, TRUE), Bytes("U", 600, 600, FALSE) }

InitFaults == xInit(FaultPool, RunRects, MaxFaultCands) /\ aIdle /\ dIdle /\ oIdle /\ sIdle

\* lines 74-76 and 213-215
Abort(what) ==
    /\ skipped_pdfs' = skipped_pdfs \cup { ErrorValue(pdf_idx, what) }
    /\ pdf_idx' = pdf_idx + 1
    /\ xpc' = "pdf"
    /\ result' = EmptyResult
    /\ render_attempts' = << >>
    /\ n_pages' = 0
    /\ page_idx' = 0
    /\ page_rect' = <<0, 0>>
    /\ image_hashes' = {}
    /\ img_idx' = 0
    /\ images_from_this_page' = 0
    /\ page_skipped' = FALSE
    /\ page_errors' = {}
    /\ page_seen' = {}
    /\ page_qualifying' = << >>
    /\ UNCHANGED << combined_result, pages_left >>
    /\ env_unchanged

\* line 61: page.get_text() raises
GetTextFails ==
    /\ xpc = "page"
    /\ page_idx < n_pages
    /\ Abort("get_text")

\* line 97: page.get_images(full=True) raises; the call is made when the
\* document is below its quota
GetImagesFails ==
    /\ xpc = "page"
    /\ page_idx < n_pages
    /\ ~DocQuotaReached(result.images)
    /\ Abort("get_images")

\* line 110: page.parent.extract_image(xref) raises; the call is made for a
\* candidate that the break of line 107 did not stop
ExtractImageFails ==
    /\ xpc = "img"
    /\ img_idx < cands_per_page
    /\ ~PageQuotaReached(images_from_this_page)
    /\ Abort("extract_image")

\* lines 110-112: extract_image returns nothing and the candidate is passed
\* over
ExtractImageEmpty ==
    /\ xpc = "img"
    /\ img_idx < cands_per_page
    /\ ~PageQuotaReached(images_from_this_page)
    /\ img_idx' = img_idx + 1
    /\ UNCHANGED << xpc, pdf_idx, combined_result, skipped_pdfs, n_pages,
                    page_idx, result, render_attempts, page_rect, image_hashes,
                    images_from_this_page, page_skipped, page_errors, page_seen,
                    page_qualifying, pages_left >>
    /\ env_unchanged

\* line 43: pages_dir.mkdir(exist_ok=True) raises, before the try of line
\* 53: the directory of the first document, which every document of the
\* run writes to (lines 205, 211), does not exist, or its entry "pages" is
\* no directory.  Nothing catches the exception in extract.py: the run ends
\* with it.
MkdirFails ==
    /\ xpc = "pdf"
    /\ pdf_idx < n_pdfs
    /\ combined_result' = [raised |-> "OSError"]
    /\ xpc' = "done"
    /\ UNCHANGED << pdf_idx, skipped_pdfs, n_pages, page_idx, result,
                    render_attempts, pages_left >>
    /\ page_unchanged /\ env_unchanged

NextFaults ==
    \/ StartRun
    \/ BeginDoc
    \/ BeginPage
    \/ ProcessCandidate
    \/ RenderPage
    \/ EndDoc
    \/ EndRun
    \/ GetTextFails
    \/ GetImagesFails
    \/ ExtractImageFails
    \/ ExtractImageEmpty
    \/ MkdirFails

SpecFaults == InitFaults /\ [][NextFaults]_vars

(***************************************************************************)
(* Properties of the image filter.                                         *)
(***************************************************************************)
\* the bytes of the images accepted from the current page, in list order
PageAccepted ==
    LET s == SelectSeq(result.images, LAMBDA e : e.page = page_idx + 1)
    IN  [i \in 1..Len(s) |-> s[i].hash]

\* the number of images the document held when the current page was reached
PriorAccepted ==
    Len(SelectSeq(result.images, LAMBDA e : e.page < page_idx + 1))

\* the smallest area that is at least RelPercent per cent of the page
MinArea(rect) == (RelPercent * (rect[1] * rect[2]) + 99) \div 100

\* C5: no two accepted images of an extraction share a content hash, whether
\* the same bytes occur on one page or on different pages.
C5_NoSharedHash ==
    \A i, j \in DOMAIN result.images :
        i # j => result.images[i].hash # result.images[j].hash

\* C6, as stated: a page with more than max_images_per_page qualifying
\* candidates yields exactly that many accepted images, the first ones in
\* candidate order.
C6_PageCapEveryPage ==
    (xpc = "render" /\ Len(page_qualifying) > max_images_per_page)
        => PageAccepted = SubSeq(page_qualifying, 1, max_images_per_page)

\* C6, amended: a page that is reached while its document holds fewer than
\* MAX_IMAGES images and that has more than max_images_per_page qualifying
\* candidates yields exactly max_images_per_page accepted images, the first
\* qualifying candidates in candidate order; a page reached later yields none.
C6_PageCap ==
    (xpc = "render" /\ Len(page_qualifying) > max_images_per_page)
        => PageAccepted = IF PriorAccepted < env_MAX_IMAGES
                            THEN SubSeq(page_qualifying, 1, max_images_per_page)
                            ELSE << >>

C6_Witness ==
    /\ xpc = "render"
    /\ PriorAccepted < env_MAX_IMAGES
    /\ Len(page_qualifying) > max_images_per_page
    /\ Len(PageAccepted) = max_images_per_page

\* C7: the lower bounds of the filter are inclusive.  A first occurrence that
\* decodes and whose width, height and area are all at their minimum or above,
\* one of them exactly at it, is accepted; a candidate with width, height or
\* area one unit below its minimum is rejected.
C7_InclusiveLowerBounds ==
    (xpc = "render" /\ PriorAccepted < env_MAX_IMAGES) =>
        \A b \in page_seen :
            LET area == b.w * b.h
                accepted == \E i \in DOMAIN PageAccepted : PageAccepted[i] = b
            IN  /\ ( /\ b.decodes
                     /\ b.w >= min_size /\ b.h >= min_size
                     /\ area >= MinArea(page_rect)
                     /\ b.w = min_size \/ b.h = min_size \/ area = MinArea(page_rect) )
                   => accepted
                /\ ( \/ b.w = min_size - 1
                     \/ b.h = min_size - 1
                     \/ area = MinArea(page_rect) - 1 )
                   => ~accepted

C7_Witness ==
    /\ xpc = "render"
    /\ \E b \in page_seen :
          /\ b.w = min_size /\ b.h = min_size
          /\ b.w * b.h = MinArea(page_rect)
          /\ PageAccepted = << b >>

\* C8: the filter enforces a maximum dimension: there is a maximum that some
\* candidate of the run exceeds and that no accepted image exceeds.
C8_MaxDimensionEnforced ==
    \E M \in { b.w : b \in pool } \cup { b.h : b \in pool } :
        /\ \E b \in pool : b.w > M \/ b.h > M
        /\ \A i \in DOMAIN result.images :
              result.images[i].width <= M /\ result.images[i].height <= M

\* C9, as stated: the number of accepted images never exceeds MAX_IMAGES.
C9_NeverAboveMax ==
    /\ Len(result.images) <= env_MAX_IMAGES
    /\ xpc = "done" /\ n_pdfs > 0 => Len(combined_result.images) <= env_MAX_IMAGES

\* C9, amended: a page reached when its document already holds MAX_IMAGES
\* images contributes no image, a page is filtered only when the document
\* held fewer, and a document never holds more than
\* MAX_IMAGES + max_images_per_page - 1 images.
C9_DocMax ==
    /\ Len(result.images) <= env_MAX_IMAGES + max_images_per_page - 1
    /\ (xpc \in {"img", "render"} /\ PriorAccepted >= env_MAX_IMAGES)
          => PageAccepted = << >>
    /\ xpc = "img" => PriorAccepted < env_MAX_IMAGES

C9_Witness ==
    /\ xpc = "render"
    /\ PriorAccepted >= env_MAX_IMAGES
    /\ Len(result.images) = env_MAX_IMAGES + max_images_per_page - 1
    /\ page_qualifying # << >>

C19_NoAbortByPageFailure ==
    \A e \in skipped_pdfs : e.error = "open"

\* C20: by the time a document is left, _extract_full_page was called once
\* for each of its pages, whatever the image filter did on the page; a
\* failed render adds nothing and changes nothing else, and the pages list
\* holds the rendered pages in increasing order.
C20_OneRenderPerPage ==
    [][/\ (xpc \in { "page", "img", "render" } /\ xpc' = "pdf") =>
             /\ render_attempts = [i \in 1..n_pages |-> i]
             /\ \A i \in 1..Len(result.pages) :
                   /\ result.pages[i].page \in 1..n_pages
                   /\ \A j \in 1..(i - 1) :
                         result.pages[j].page < result.pages[i].page
       /\ xpc = "render" =>
             /\ render_attempts' = Append(render_attempts, page_idx + 1)
             /\ result'.text = result.text
             /\ result'.images = result.images
             /\ \/ result'.pages = result.pages
                \/ result'.pages = Append(result.pages, [page |-> page_idx + 1])]_vars

\* C21: in a run on a non-empty list a document whose extraction fails is
\* left out and the run goes on: the combined result has text, images and
\* pages, every other document adds its content at the end, in the order of
\* the list, and its images and pages carry its index in the list.
C21_FailedDocumentSkipped ==
    /\ [](xpc = "done" /\ n_pdfs > 0 =>
             DOMAIN combined_result = { "text", "images", "pages" })
    /\ [][(xpc \in { "pdf", "page", "img" } /\ pdf_idx' = pdf_idx + 1) =>
             IF skipped_pdfs' # skipped_pdfs
               THEN combined_result' = combined_result
               ELSE /\ combined_result'.text =
                          combined_result.text \o << <<"pdf", pdf_idx + 1>> >>
                                               \o result.text
                    /\ Len(combined_result'.images) =
                          Len(combined_result.images) + Len(result.images)
                    /\ \A i \in 1..Len(combined_result.images) :
                          combined_result'.images[i] = combined_result.images[i]
                    /\ \A i \in 1..Len(result.images) :
                          LET e == combined_result'.images[Len(combined_result.images) + i]
                          IN  /\ e.pdf_index = pdf_idx
                              /\ \A f \in DOMAIN result.images[i] :
                                    e[f] = result.images[i][f]
                    /\ Len(combined_result'.pages) =
                          Len(combined_result.pages) + Len(result.pages)
                    /\ \A i \in 1..Len(combined_result.pages) :
                          combined_result'.pages[i] = combined_result.pages[i]
                    /\ \A i \in 1..Len(result.pages) :
                          LET e == combined_result'.pages[Len(combined_result.pages) + i]
                          IN  /\ e.pdf_index = pdf_idx
                              /\ e.page = result.pages[i].page]_vars

(***************************************************************************)
(* OpenAIHandler.process_content (openai_api.py lines 66-161).             *)
(*                                                                         *)
(* A text is a sequence of segments [src, off, len]: len characters of the *)
(* string named src, starting at its offset off.  Only the strings the     *)
(* code writes itself have a fixed length.                                 *)
(***************************************************************************)
MaxContentLen == 3

\* openai_api.py line 104 and line 107
TokenCeiling == 7000
CharsPerToken == 4
CharBudget == 28000
\* line 68: stop_after_attempt(3)
MaxAttempts == 3

\* len("\n\n--- IMAGE CONTENT ---\n"), len("\nImage "), len(": "), len("\n"),
\* len("...[Content truncated due to length]")
HeaderLen == 24
LabelHeadLen == 7
LabelTailLen == 2
NewlineLen == 1
MarkerLen == 36

\* a run of n characters of src that belongs to no image, and one that
\* belongs to image i (from 1) of the list
Seg(src, n) ==
    IF n = 0 THEN << >> ELSE << [src |-> src, img |-> 0, off |-> 0, len |-> n] >>
ImageSeg(src, i, n) ==
    IF n = 0 THEN << >> ELSE << [src |-> src, img |-> i, off |-> 0, len |-> n] >>

RECURSIVE TLen(_)
TLen(t) == IF t = << >> THEN 0 ELSE Head(t).len + TLen(Tail(t))

\* Python t[:n]
RECURSIVE Slice(_, _)
Slice(t, n) ==
    IF t = << >> \/ n <= 0 THEN << >>
    ELSE IF Head(t).len <= n
           THEN << Head(t) >> \o Slice(Tail(t), n - Head(t).len)
           ELSE << [Head(t) EXCEPT !.len = n] >>

\* Python t[-n:], for n > 0
RECURSIVE SliceTail(_, _)
SliceTail(t, n) ==
    IF t = << >> THEN << >>
    ELSE IF TLen(t) - Head(t).len >= n THEN SliceTail(Tail(t), n)
    ELSE IF TLen(t) <= n THEN t
    ELSE << [Head(t) EXCEPT !.off = @ + (TLen(t) - n), !.len = n - TLen(Tail(t))] >>
         \o Tail(t)

\* the character at position p (from 0) of t
RECURSIVE CharAt(_, _)
CharAt(t, p) ==
    IF p < Head(t).len THEN << Head(t).src, Head(t).img, Head(t).off + p >>
    ELSE CharAt(Tail(t), p - Head(t).len)

\* the positions at which a segment of t starts or ends
RECURSIVE Boundaries(_, _)
Boundaries(t, at) ==
    IF t = << >> THEN {}
    ELSE {at, at + Head(t).len - 1} \cup Boundaries(Tail(t), at + Head(t).len)

\* number of decimal digits of i, for 1 <= i <= 99
Digits(i) == IF i < 10 THEN 1 ELSE 2

\* lines 91-97: the block appended for the images
RECURSIVE ImageLines(_, _)
ImageLines(imgs, i) ==
    IF i > Len(imgs) THEN << >>
    ELSE (IF imgs[i].image_description > 0
            THEN ImageSeg("Image i: ", i, LabelHeadLen + Digits(i) + LabelTailLen)
                 \o ImageSeg("image_description", i, imgs[i].image_description)
                 \o Seg("\n", NewlineLen)
            ELSE << >>)
         \o ImageLines(imgs, i + 1)

\* lines 88-97
CombinedText(text, imgs) ==
    text \o (IF Len(imgs) > 0
               THEN Seg("--- IMAGE CONTENT ---", HeaderLen) \o ImageLines(imgs, 1)
               ELSE << >>)

\* lines 101-104: est_tokens = len(combined_text) / 4; est_tokens > 7000
NeedsTruncation_inclusive(t) == TLen(t) >= CharsPerToken * TokenCeiling
NeedsTruncation(t) == TLen(t) > CharsPerToken * TokenCeiling

\* lines 104-107
Truncated(t) ==
    IF NeedsTruncation(t)
      THEN Slice(t, CharBudget) \o Seg("...[Content truncated due to length]", MarkerLen)
      ELSE t

(***************************************************************************)
(* The reply of the model, as a sequence of JSON tokens: braces, brackets  *)
(* and "x", a character that is no JSON.  json.loads accepts a sequence    *)
(* that is exactly one value; the value is kept as its token sequence.     *)
(* The replies are the sequences of up to MaxContentLen tokens and the     *)
(* shorter ones put into a list.                                           *)
(***************************************************************************)
JsonTokens == { "{", "}", "[", "]", "x" }

Contents ==
    SeqsUpTo(JsonTokens, MaxContentLen)
    \cup { << "[" >> \o c \o << "]" >> : c \in SeqsUpTo(JsonTokens, MaxContentLen - 1) }

\* position after the value that starts at i, 0 when there is none
RECURSIVE ParseValue(_, _)
RECURSIVE ParseElements(_, _)
ParseValue(s, i) ==
    IF i > Len(s) THEN 0
    ELSE IF s[i] = "{" THEN (IF i + 1 <= Len(s) /\ s[i + 1] = "}" THEN i + 2 ELSE 0)
    ELSE IF s[i] = "[" THEN
            (IF i + 1 <= Len(s) /\ s[i + 1] = "]" THEN i + 2 ELSE ParseElements(s, i + 1))
    ELSE 0
ParseElements(s, i) ==
    LET j == ParseValue(s, i)
    IN  IF j = 0 \/ j > Len(s) THEN 0
        ELSE IF s[j] = "]" THEN j + 1
        ELSE 0

\* json.loads: [ok, value]
JsonLoads(s) ==
    IF ParseValue(s, 1) = Len(s) + 1 THEN [ok |-> TRUE, value |-> s]
                                     ELSE [ok |-> FALSE]

\* str.find and str.rfind for a single character, 0-based, -1 when absent
Find(s, c) ==
    IF \E i \in 1..Len(s) : s[i] = c
      THEN (CHOOSE i \in 1..Len(s) : s[i] = c /\ \A k \in 1..(i - 1) : s[k] # c) - 1
      ELSE 0 - 1
RFind(s, c) ==
    IF \E i \in 1..Len(s) : s[i] = c
      THEN (CHOOSE i \in 1..Len(s) : s[i] = c /\ \A k \in (i + 1)..Len(s) : s[k] # c) - 1
      ELSE 0 - 1

\* lines 153-158
ParseErrorResult ==
    [is |-> "parse_error", error |-> TRUE,
     summary |-> "Error parsing AI response",
     key_points |-> << "The AI returned an invalid format" >>,
     insights |-> << "Please try again" >>]

\* lines 136-158
ParsedResponse(content) ==
    LET json_start == Find(content, "{")
        json_end == RFind(content, "}") + 1
        loaded == IF json_start >= 0 /\ json_end > json_start
                    THEN JsonLoads(SubSeq(content, json_start + 1, json_end))
                    ELSE JsonLoads(content)
    IN  IF loaded.ok THEN [is |-> "parsed", value |-> loaded.value]
                     ELSE ParseErrorResult

\* _handle_api_error, lines 48-64
ApiErrorResult(exc) ==
    [is |-> "api_error", error |-> TRUE,
     error_type |-> exc, error_message |-> << "str", exc >>,
     summary |-> "Sorry, there was an error processing this document with AI.",
     key_points |-> << "AI processing failed", << "Error: ", << "str", exc >> >> >>,
     insights |-> << "Please try again or process manually" >>]

\* the failures of chat.completions.create
Exceptions == { "RateLimitError", "APITimeoutError", "InternalServerError",
                "AuthenticationError" }

\* line 67: retry_if_exception_type((openai.RateLimitError, openai.APITimeoutError))
RetryIf(exc) == exc \in { "RateLimitError", "APITimeoutError" }

\* line 160: except Exception
CaughtInBody_none(exc) == FALSE
CaughtInBody_fatal_only(exc) == ~RetryIf(exc)
CaughtInBody(exc) == exc \in Exceptions

\* lines 114-120: the system message, of which the model keeps the fields
\* of the JSON structure it tells the service to return
system_prompt ==
    [text |-> "You are an expert document analyzer.",
     fields |-> { "summary", "key_points", "insights" }]

\* what the service does on its 1st, 2nd, 3rd call: it fails a number of
\* times; once it has answered, it answers
Scripts ==
    { s \in [1..MaxAttempts -> Exceptions \cup {"ok"}] :
        \A k \in 1..(MaxAttempts - 1) : s[k] = "ok" => s[k + 1] = "ok" }

TextLens == { 0, 27960, 27961, 50000 }
DescLens == { 0, 5 }
OcrLens == { 0, 3 }
MaxAnalyzeImages == 2

InitAnalyze ==
    /\ xInit({}, {}, 0) /\ n_pdfs = 0 /\ env_MAX_IMAGES = 1
    /\ dIdle /\ oIdle /\ sIdle
    /\ apc = "start"
    /\ \E n \in TextLens : extracted_text = Seg("extracted_text", n)
    /\ schema \in SchemaArgs
    /\ images \in SeqsUpTo({ [image_description |-> d, ocr_text |-> o] :
                                d \in DescLens, o \in OcrLens },
                           MaxAnalyzeImages)
    /\ combined_text = << >>
    /\ request = << >>
    /\ response = << >>
    /\ raised = "none"
    /\ api_script \in Scripts
    /\ api_calls = 0
    /\ attempt_number = 1
    /\ outcome = [kind |-> "none"]

\* lines 79-120: the text of the request is put together
BuildRequest ==
    /\ apc = "start"
    /\ schema' = (IF schema = None THEN DEFAULT_OUTPUT_SCHEMA ELSE schema)
    /\ combined_text' = Truncated(CombinedText(extracted_text, images))
    /\ apc' = "call"
    /\ UNCHANGED << extracted_text, images, request, response, raised,
                    api_script, api_calls, attempt_number, outcome >>
    /\ UNCHANGED << xvars, dvars, ovars, svars >>

\* lines 122-133: the call of the service, which replies or fails
CallApi ==
    /\ apc = "call"
    /\ api_calls' = api_calls + 1
    /\ request' = [system |-> system_prompt,
                   user |-> Seg("DEFAULT_PROMPT", 1) \o Seg("DOCUMENT CONTENT:", 20)
                            \o combined_text]
    /\ IF api_script[api_calls + 1] = "ok"
         THEN /\ response' \in Contents
              /\ raised' = "none"
              /\ apc' = "parse"
         ELSE /\ raised' = api_script[api_calls + 1]
              /\ response' = << >>
              /\ apc' = "except"
    /\ UNCHANGED << extracted_text, schema, images, combined_text, api_script,
                    attempt_number, outcome >>
    /\ UNCHANGED << xvars, dvars, ovars, svars >>

\* lines 136-158: the reply is parsed and returned through the decorator
ParseResponse ==
    /\ apc = "parse"
    /\ outcome' = [kind |-> "return", value |-> ParsedResponse(response)]
    /\ apc' = "done"
    /\ UNCHANGED << extracted_text, schema, images, combined_text, request,
                    response, raised, api_script, api_calls, attempt_number >>
    /\ UNCHANGED << xvars, dvars, ovars, svars >>

\* lines 160-161 and the decorator of lines 66-70: an exception caught in the
\* body is returned as an error value; one that leaves the body is retried
\* after wait_fixed(2) when RetryIf holds and attempts remain, raised as
\* RetryError when none remain, and raised unchanged otherwise
HandleException ==
    /\ apc = "except"
    /\ IF CaughtInBody(raised)
         THEN /\ outcome' = [kind |-> "return", value |-> ApiErrorResult(raised)]
              /\ apc' = "done"
              /\ UNCHANGED attempt_number
         ELSE IF RetryIf(raised) /\ attempt_number < MaxAttempts
         THEN /\ attempt_number' = attempt_number + 1
              /\ apc' = "start"
              /\ UNCHANGED outcome
         ELSE /\ outcome' = [kind |-> "raise",
                             exc |-> IF RetryIf(raised) THEN "RetryError" ELSE raised]
              /\ apc' = "done"
              /\ UNCHANGED attempt_number
    /\ UNCHANGED << extracted_text, schema, images, combined_text, request,
                    response, raised, api_script, api_calls >>
    /\ UNCHANGED << xvars, dvars, ovars, svars >>

NextAnalyze ==
    \/ BuildRequest
    \/ CallApi
    \/ ParseResponse
    \/ HandleException

SpecAnalyze == InitAnalyze /\ [][NextAnalyze]_vars

(***************************************************************************)
(* Properties of process_content.                                          *)
(***************************************************************************)
\* the failures the retry policy calls transient: rate limit, timeout, 5xx
Transient(o) == o \in { "RateLimitError", "APITimeoutError", "InternalServerError" }
Fatal(o) == o \in Exceptions /\ ~Transient(o)

\* the service fails transiently r times and then succeeds
FailsThenSucceeds(r) ==
    /\ \A k \in 1..r : Transient(api_script[k])
    /\ api_script[r + 1] = "ok"

\* the value returned is the structured error of _handle_api_error for exc
IsStructuredError(o, exc) ==
    /\ o.kind = "return"
    /\ o.value.is = "api_error"
    /\ o.value.error = TRUE
    /\ o.value.error_type = exc
    /\ o.value.error_message = << "str", exc >>
    /\ { "summary", "key_points", "insights" } \subseteq DOMAIN o.value

\* C2: when the call fails transiently r < MaxAttempts times and then
\* succeeds, process_content returns what the successful reply parses to,
\* after exactly r retries.
C2_RetriesUntilSuccess ==
    apc = "done" =>
        \A r \in 0..(MaxAttempts - 1) :
            FailsThenSucceeds(r) =>
                /\ api_calls = r + 1
                /\ outcome.kind = "return"
                /\ outcome.value = ParsedResponse(response)

\* C3: when the call fails transiently on every attempt, process_content
\* does not raise but returns a structured error (kind, message, default
\* summary, key_points and insights), and no call makes more than
\* MaxAttempts attempts.
C3_ExhaustedGivesError ==
    /\ api_calls <= MaxAttempts /\ attempt_number <= MaxAttempts
    /\ (apc = "done" /\ \A k \in 1..MaxAttempts : Transient(api_script[k]))
          => IsStructuredError(outcome, api_script[api_calls])

C3_Witness ==
    /\ apc = "done"
    /\ \A k \in 1..MaxAttempts : Transient(api_script[k])
    /\ IsStructuredError(outcome, api_script[api_calls])

\* C4: a fatal failure is never retried: the call that meets it is the last
\* one, a fatal failure of the first call leaves exactly one attempt, and a
\* structured error for that failure is returned.
C4_FatalNotRetried ==
    apc = "done" =>
        \A k \in 1..api_calls :
            Fatal(api_script[k]) =>
                /\ k = api_calls
                /\ attempt_number = k
                /\ IsStructuredError(outcome, api_script[k])

C4_Witness ==
    /\ apc = "done"
    /\ Fatal(api_script[1])
    /\ api_calls = 1
    /\ IsStructuredError(outcome, api_script[1])

\* C10: a combined text longer than CharBudget is sent as its first
\* CharBudget characters followed by the truncation marker, a text of
\* CharBudget characters or fewer is sent unchanged; the text sent is a
\* function of the arguments.
C10_Truncation ==
    apc \in { "call", "parse", "except", "done" } =>
        LET full == CombinedText(extracted_text, images)
            sent == combined_text
        IN  IF TLen(full) > CharBudget
              THEN /\ TLen(sent) = CharBudget + MarkerLen
                   /\ \A p \in (Boundaries(full, 0) \cup Boundaries(sent, 0)
                                \cup {0, CharBudget - 1}) \cap 0..(CharBudget - 1) :
                         CharAt(sent, p) = CharAt(full, p)
                   /\ \A k \in 0..(MarkerLen - 1) :
                         CharAt(sent, CharBudget + k) =
                            << "...[Content truncated due to length]", 0, k >>
              ELSE sent = full

C10_Witness ==
    /\ apc = "call"
    /\ TLen(CombinedText(extracted_text, images)) = CharBudget + 1
    /\ TLen(combined_text) = CharBudget + MarkerLen
    /\ Len(images) > 0

\* C11: the reply is first parsed as a whole, and the value of the whole
\* reply is returned whenever the whole reply is valid JSON; the part from
\* the first '{' to the last '}' is parsed only when the whole is not.
C11_WholeReplyFirst ==
    (apc = "done" /\ raised = "none" /\ api_calls > 0) =>
        LET whole == JsonLoads(response)
            json_start == Find(response, "{")
            json_end == RFind(response, "}") + 1
        IN  /\ outcome.kind = "return"
            /\ IF whole.ok
                 THEN /\ outcome.value.is = "parsed"
                      /\ outcome.value.value = whole.value
                 ELSE IF json_start >= 0 /\ json_end > json_start
                        /\ JsonLoads(SubSeq(response, json_start + 1, json_end)).ok
                 THEN /\ outcome.value.is = "parsed"
                      /\ outcome.value.value =
                            JsonLoads(SubSeq(response, json_start + 1, json_end)).value
                 ELSE outcome.value.is = "parse_error"

\* the leading part of the raw reply that line 152 writes to the log
ExcerptLen == 500

Excerpt(content) ==
    SubSeq(content, 1, IF Len(content) < ExcerptLen THEN Len(content) ELSE ExcerptLen)

\* the fields of the parse-error result whose values are the literals of
\* lines 154-157 ("is" is the tag of the model)
LiteralFields == { "is", "error", "summary", "key_points", "insights" }

\* C12: when neither the whole reply nor its brace-delimited part is valid
\* JSON, the result is the structured parse error and it carries the
\* leading excerpt of the raw reply.
C12_ParseErrorCarriesExcerpt ==
    (/\ apc = "done" /\ raised = "none" /\ api_calls > 0
     /\ ~JsonLoads(response).ok
     /\ LET json_start == Find(response, "{")
            json_end == RFind(response, "}") + 1
        IN  ~(/\ json_start >= 0 /\ json_end > json_start
              /\ JsonLoads(SubSeq(response, json_start + 1, json_end)).ok))
    => /\ outcome.kind = "return"
       /\ outcome.value.is = "parse_error"
       /\ outcome.value.error = TRUE
       /\ \E f \in (DOMAIN outcome.value) \ LiteralFields :
              outcome.value[f] = Excerpt(response)

\* C13: the combined text sent for analysis holds, for every image of the
\* list, its description and, when the image has OCR text, its OCR text
\* too, each tagged with the index of the image in the list.
C13_DescriptionAndOcrText ==
    (/\ apc \in { "call", "parse", "except", "done" }
     /\ ~NeedsTruncation(CombinedText(extracted_text, images)))
    => \A i \in 1..Len(images) :
          /\ images[i].image_description > 0 =>
                \E k \in 1..(Len(combined_text) - 1) :
                    /\ combined_text[k].src = "Image i: "
                    /\ combined_text[k].img = i
                    /\ combined_text[k + 1] =
                          [src |-> "image_description", img |-> i, off |-> 0,
                           len |-> images[i].image_description]
          /\ images[i].ocr_text > 0 =>
                \E k \in 1..Len(combined_text) :
                    combined_text[k] =
                        [src |-> "ocr_text", img |-> i, off |-> 0,
                         len |-> images[i].ocr_text]

\* C14: the request names, as the fields the reply must have, the required
\* fields of the schema of the call, the default one or the caller's.
C14_RequestNamesRequiredFields ==
    (apc \in { "parse", "except", "done" } /\ api_calls > 0) =>
        /\ schema \in { DEFAULT_OUTPUT_SCHEMA, CustomSchema }
        /\ request.system.fields = schema.required

(***************************************************************************)
(* OpenAIHandler._parse_numbered_descriptions and the clean-up loop of     *)
(* _process_image_batch (openai_api.py lines 247-349).                     *)
(*                                                                         *)
(* A reply is a sequence of characters, each a string of length one.       *)
(* Positions are counted from 1; a position Len(t) + 1 is the end.         *)
(***************************************************************************)
IsSpace(c) == c \in { " ", "\n" }
IsDigit(c) == c \in { "0", "1", "2", "3", "4", "5", "6", "7", "8", "9" }

DigitValue(c) == CHOOSE d \in 0..9 : ToString(d) = c
DigitChar(d) == ToString(d)

\* int(num_str)
RECURSIVE IntOf(_)
IntOf(ds) ==
    IF ds = << >> THEN 0
    ELSE 10 * IntOf(SubSeq(ds, 1, Len(ds) - 1)) + DigitValue(ds[Len(ds)])

\* str(j), for 0 <= j <= 99
Decimal(j) ==
    IF j < 10 THEN << DigitChar(j) >>
    ELSE << DigitChar(j \div 10), DigitChar(j % 10) >>

\* the position after the longest run of white space (\s*) starting at p
RECURSIVE SkipSpace(_, _)
SkipSpace(t, p) ==
    IF p <= Len(t) /\ IsSpace(t[p]) THEN SkipSpace(t, p + 1) ELSE p

\* the position after the longest run of digits starting at p
RECURSIVE SkipDigits(_, _)
SkipDigits(t, p) ==
    IF p <= Len(t) /\ IsDigit(t[p]) THEN SkipDigits(t, p + 1) ELSE p

\* str.upper() of one character
Upper(c) ==
    CASE c = "a" -> "A" [] c = "b" -> "B" [] c = "c" -> "C" [] c = "d" -> "D"
      [] c = "e" -> "E" [] c = "f" -> "F" [] c = "g" -> "G" [] c = "h" -> "H"
      [] c = "i" -> "I" [] c = "j" -> "J" [] c = "k" -> "K" [] c = "l" -> "L"
      [] c = "m" -> "M" [] c = "n" -> "N" [] c = "o" -> "O" [] c = "p" -> "P"
      [] c = "q" -> "Q" [] c = "r" -> "R" [] c = "s" -> "S" [] c = "t" -> "T"
      [] c = "u" -> "U" [] c = "v" -> "V" [] c = "w" -> "W" [] c = "x" -> "X"
      [] c = "y" -> "Y" [] c = "z" -> "Z" [] OTHER -> c

\* the position after the literal lit at p, 0 when it is not there
LiteralEnd(t, p, lit, ignorecase) ==
    IF /\ p + Len(lit) - 1 <= Len(t)
       /\ \A k \in 1..Len(lit) :
             IF ignorecase THEN Upper(t[p + k - 1]) = Upper(lit[k])
                           ELSE t[p + k - 1] = lit[k]
      THEN p + Len(lit)
      ELSE 0

\* str.strip()
RECURSIVE StripLeft(_)
StripLeft(s) == IF s # << >> /\ IsSpace(Head(s)) THEN StripLeft(Tail(s)) ELSE s
RECURSIVE StripRight(_)
StripRight(s) ==
    IF s # << >> /\ IsSpace(s[Len(s)]) THEN StripRight(SubSeq(s, 1, Len(s) - 1)) ELSE s
Strip(s) == StripRight(StripLeft(s))

\* F applied to the value of v, which is computed once
Bind(v, F(_)) == CHOOSE r \in { F(x) : x \in { v } } : TRUE

\* the least element of a non-empty set of positions
First(S) == CHOOSE q \in S : \A r \in S : q <= r

\* the elements of a set of positions, in increasing order
Ordered(S) ==
    [j \in 1..Cardinality(S) |->
        CHOOSE i \in S : Cardinality({ x \in S : x < i }) = j - 1]

\* the words between \s* and (\d+) in the three patterns of lines 275-277:
\* nothing, "Image\s*", "Image\s*#".  Each greedy run can only be matched
\* whole, the next element of the pattern excludes its characters.
ImageWord == << "I", "m", "a", "g", "e" >>

\* Image\s* at a: the position after it, 0 when the word is not there
WordEnd(t, a) ==
    IF LiteralEnd(t, a, ImageWord, FALSE) = 0 THEN 0
    ELSE SkipSpace(t, LiteralEnd(t, a, ImageWord, FALSE))

\* # at c: the position after it, 0 when it is not there
HashEnd(t, c) == IF c = 0 THEN 0 ELSE LiteralEnd(t, c, << "#" >>, FALSE)

\* where (\d+) has to start when pattern k is tried with its \s* at q, 0
\* when the words of the pattern are not there
DigitsStart(t, q, k) ==
    CASE k = 1 -> SkipSpace(t, q)
      [] k = 2 -> WordEnd(t, SkipSpace(t, q))
      [] k = 3 -> HashEnd(t, WordEnd(t, SkipSpace(t, q)))

\* (\d+)[:.] with the digits from d up to e: [ok, num, end]
NumberEnd(t, d, e) ==
    IF d # 0 /\ e > d /\ e <= Len(t) /\ t[e] \in { ":", "." }
      THEN [ok |-> TRUE, num |-> SubSeq(t, d, e - 1), end |-> e + 1]
      ELSE [ok |-> FALSE]

\* \s* [Image\s* [#]] (\d+) [:.] matched at q: [ok, num, end]
NumberHead(t, q, k) ==
    Bind(DigitsStart(t, q, k),
         LAMBDA d : NumberEnd(t, d, IF d = 0 THEN 0 ELSE SkipDigits(t, d)))

\* the lookahead (?=(?:\n\s*...\d+[:.]\s*)|$) at position e; without
\* re.MULTILINE $ holds at the end and before a final newline
Lookahead(t, e, k) ==
    \/ e = Len(t) + 1
    \/ e = Len(t) /\ t[e] = "\n"
    \/ e <= Len(t) /\ t[e] = "\n" /\ NumberHead(t, e + 1, k).ok

\* the lazy (.*?) that starts at g ends at the first position where the
\* lookahead holds; it holds at the end of the text at the latest
LazyEnd(t, g, k) == First({ e \in g..(Len(t) + 1) : Lookahead(t, e, k) })

\* (?:^|\n) then the head of pattern k, at p: ^ is tried first, at the
\* start of the text only, then the newline
HeadAt(t, p, k) ==
    IF p = 1 /\ NumberHead(t, p, k).ok THEN NumberHead(t, p, k)
    ELSE IF p <= Len(t) /\ t[p] = "\n" THEN NumberHead(t, p + 1, k)
    ELSE [ok |-> FALSE]

\* the match whose number is num and whose description runs from g up to e
Match(t, num, g, e) == [num |-> num, desc |-> SubSeq(t, g, e - 1), end |-> e]

\* the match of pattern k that starts at p, where HeadAt holds: the head,
\* \s*, and the lazy description
MatchAt(t, p, k) ==
    Bind(HeadAt(t, p, k),
         LAMBDA h : Bind(SkipSpace(t, h.end),
                         LAMBDA g : Match(t, h.num, g, LazyEnd(t, g, k))))

\* the positions from p on where pattern k matches
Starts(t, p, k) ==
    { q \in p..Len(t) : (q = 1 \/ t[q] = "\n") /\ HeadAt(t, q, k).ok }

\* the first n matches of the search that finds its first match at q: each
\* match starts at the first position where the pattern matches, the search
\* going on where the match before ended.  The first half of the matches is
\* found, then the other half from where the first half ended
RECURSIVE Matches(_, _, _, _)
Matches(t, q, k, n) ==
    IF n <= 1 THEN << MatchAt(t, q, k) >>
    ELSE Bind(Matches(t, q, k, n \div 2), LAMBDA found :
           Bind(Starts(t, found[Len(found)].end, k), LAMBDA starts :
             IF Len(found) < n \div 2 \/ starts = {} THEN found
             ELSE found \o Matches(t, First(starts), k, n - n \div 2)))

\* re.findall(pattern, text, re.DOTALL): the matches from position p on; there
\* are at most Len(t) of them
FindAll(t, p, k) ==
    Bind(Starts(t, p, k), LAMBDA starts :
      IF starts = {} THEN << >> ELSE Matches(t, First(starts), k, Len(t)))

\* int(num_str) - 1 of line 289, as the number itself
Number(matches, i) == IntOf(matches[i].num)

\* the last match that carries the number j
LastNumbered(matches, j) ==
    CHOOSE i \in 1..Len(matches) :
        /\ Number(matches, i) = j
        /\ \A i2 \in (i + 1)..Len(matches) : Number(matches, i2) # j

\* lines 282-301 for the matches of one pattern: [ok, value]
Numbered(matches, n) ==
    IF /\ matches # << >>
       /\ \A i \in 1..Len(matches) : Number(matches, i) \in 1..n
       /\ \A j \in 1..n : \E i \in 1..Len(matches) : Number(matches, i) = j
      THEN [ok |-> TRUE,
            value |-> [j \in 1..n |-> Strip(matches[LastNumbered(matches, j)].desc)]]
      ELSE [ok |-> FALSE]

NumberedByPattern(t, n, k) == Bind(FindAll(t, 1, k), LAMBDA matches : Numbered(matches, n))

\* Strategy 1, lines 273-301: the first pattern whose matches fill the slots
Strategy1(t, n) ==
    Bind(NumberedByPattern(t, n, 1), LAMBDA r1 :
      IF r1.ok THEN r1
      ELSE Bind(NumberedByPattern(t, n, 2), LAMBDA r2 :
             IF r2.ok THEN r2 ELSE NumberedByPattern(t, n, 3)))

\* the pieces of t between the positions nl, which are in increasing order
Pieces(t, nl) ==
    [j \in 1..(Len(nl) + 1) |->
        SubSeq(t, IF j = 1 THEN 1 ELSE nl[j - 1] + 1,
                  IF j = Len(nl) + 1 THEN Len(t) ELSE nl[j] - 1)]

\* str.split('\n'): the pieces between the newlines, one more than there are
\* newlines
SplitLines(t) ==
    Bind(Ordered({ i \in 1..Len(t) : t[i] = "\n" }), LAMBDA nl : Pieces(t, nl))

\* re.match(r'^\s*(\d+)[.:]', line): the position after the match, 0 if none
LineNumberEnd(line) ==
    Bind(NumberHead(line, 1, 1), LAMBDA h : IF h.ok THEN h.end ELSE 0)

\* line 317 repeated over lines[a..b]: " " + line.strip() for each of them
RECURSIVE Continuation(_, _, _)
Continuation(lines, a, b) ==
    IF a > b THEN << >>
    ELSE IF a = b THEN << " " >> \o Strip(lines[a])
    ELSE Continuation(lines, a, (a + b) \div 2)
         \o Continuation(lines, (a + b) \div 2 + 1, b)

\* line 315 and line 317: the current_description that the numbered line i
\* starts, with the lines up to stop added to it
Started(lines, i, stop) ==
    Strip(SubSeq(lines[i], LineNumberEnd(lines[i]), Len(lines[i])))
    \o Continuation(lines, i + 1, stop)

\* lines 309-321, the loop over the lines: every numbered line starts a new
\* current_description with what follows its number, stripped; every other
\* line is added to the current one after a space; the lines before the
\* first numbered line make a current_description of their own.  The
\* result holds, in the order of the text, every current_description as it
\* is when the next numbered line, or the end, is reached; numbered holds
\* the positions of the numbered lines in increasing order
CurrentDescriptions(lines, numbered) ==
    << Continuation(lines, 1, IF numbered = << >> THEN Len(lines)
                                                  ELSE numbered[1] - 1) >>
    \o [j \in 1..Len(numbered) |->
           Started(lines, numbered[j],
                   IF j = Len(numbered) THEN Len(lines) ELSE numbered[j + 1] - 1)]

NumberedLines(lines) ==
    Bind(Ordered({ i \in 1..Len(lines) : LineNumberEnd(lines[i]) # 0 }),
         LAMBDA numbered : CurrentDescriptions(lines, numbered))

\* lines 313, 320: if current_description; lines 314, 321, 332: strip()
NonEmpty(seq) == SelectSeq(seq, LAMBDA c : c # << >>)
StripAll(seq) == [j \in 1..Len(seq) |-> Strip(seq[j])]

\* lines 324, 335: len(descriptions) == expected_count
CountMatches_atleast(descriptions, n) == Len(descriptions) >= n
CountMatches(descriptions, n) == Len(descriptions) = n

\* lines 324-325, 335-336: [ok, value]
IfCountMatches(descriptions, n) ==
    IF CountMatches(descriptions, n) THEN [ok |-> TRUE, value |-> descriptions]
                                     ELSE [ok |-> FALSE]

\* Strategy 2, lines 303-327
Strategy2(t, n) ==
    Bind(SplitLines(t), LAMBDA lines :
      Bind(StripAll(NonEmpty(NumberedLines(lines))), LAMBDA descriptions :
        IfCountMatches(descriptions, n)))

\* the newlines that a separator \n\s*\n starting at the newline p can end at
SeparatorNewlines(t, p) ==
    { i \in (p + 1)..(SkipSpace(t, p + 1) - 1) : t[i] = "\n" }

\* the last of a non-empty set of positions
Last(S) == CHOOSE q \in S : \A r \in S : r <= q

\* re.split(r'\n\s*\n', text): a separator starts at a newline and runs, the
\* white space being matched greedily, to the last newline of the white
\* space that follows; the search goes on after it, so a newline that an
\* earlier separator holds starts none
SeparatorStarts(t) ==
    { p \in 1..Len(t) :
        /\ t[p] = "\n"
        /\ SeparatorNewlines(t, p) # {}
        /\ \A p2 \in 1..(p - 1) : ~(t[p2] = "\n" /\ p \in SeparatorNewlines(t, p2)) }

\* the pieces of t between the separators that start at the positions seps
Paragraphs(t, seps) ==
    [j \in 1..(Len(seps) + 1) |->
        SubSeq(t, IF j = 1 THEN 1 ELSE Last(SeparatorNewlines(t, seps[j - 1])) + 1,
                  IF j = Len(seps) + 1 THEN Len(t) ELSE seps[j] - 1)]

SplitParagraphs(t) ==
    Bind(Ordered(SeparatorStarts(t)), LAMBDA seps : Paragraphs(t, seps))

\* Strategy 3, lines 329-338
Strategy3(t, n) ==
    Bind(NonEmpty(StripAll(SplitParagraphs(t))), LAMBDA descriptions :
      IfCountMatches(descriptions, n))

\* final fallback, lines 340-349, for n > 0
EvenSplit(t, n) ==
    LET chars_per_image == Len(t) \div n
    IN  [i \in 1..n |->
            Strip(SubSeq(t, (i - 1) * chars_per_image + 1, i * chars_per_image))]

\* _parse_numbered_descriptions: [raised, value]; total_chars // 0 raises
\* ZeroDivisionError
ParseNumberedDescriptions_paragraphs_first(t, n) ==
    Bind(Strategy1(t, n), LAMBDA s1 :
      IF s1.ok THEN [raised |-> "none", value |-> s1.value]
      ELSE Bind(Strategy3(t, n), LAMBDA s3 :
        IF s3.ok THEN [raised |-> "none", value |-> s3.value]
        ELSE Bind(Strategy2(t, n), LAMBDA s2 :
          IF s2.ok THEN [raised |-> "none", value |-> s2.value]
          ELSE IF n = 0 THEN [raised |-> "ZeroDivisionError", value |-> << >>]
          ELSE [raised |-> "none", value |-> EvenSplit(t, n)])))
ParseNumberedDescriptions(t, n) ==
    Bind(Strategy1(t, n), LAMBDA s1 :
      IF s1.ok THEN [raised |-> "none", value |-> s1.value]
      ELSE Bind(Strategy2(t, n), LAMBDA s2 :
        IF s2.ok THEN [raised |-> "none", value |-> s2.value]
        ELSE Bind(Strategy3(t, n), LAMBDA s3 :
          IF s3.ok THEN [raised |-> "none", value |-> s3.value]
          ELSE IF n = 0 THEN [raised |-> "ZeroDivisionError", value |-> << >>]
          ELSE [raised |-> "none", value |-> EvenSplit(t, n)])))

\* line 260: re.sub(r'^(Image\s+\d+[:.]\s*)', '', s, flags=re.IGNORECASE)
StripImagePrefix(s) ==
    LET a == LiteralEnd(s, 1, ImageWord, TRUE)
        b == IF a = 0 THEN 0 ELSE SkipSpace(s, a)
        c == IF b = 0 \/ b = a THEN 0 ELSE SkipDigits(s, b)
    IN  IF c # 0 /\ c > b /\ c <= Len(s) /\ s[c] \in { ":", "." }
          THEN SubSeq(s, SkipSpace(s, c + 1), Len(s))
          ELSE s

\* lines 255-266: '**' and then '*' are removed, which removes every '*';
\* the prefix is removed; the first character is upper-cased
CleanDescription(desc) ==
    LET clean_desc == StripImagePrefix(SelectSeq(desc, LAMBDA c : c # "*"))
    IN  IF clean_desc # << >>
          THEN << Upper(clean_desc[1]) >> \o Tail(clean_desc)
          ELSE clean_desc

(***************************************************************************)
(* OpenAIHandler.batch_generate_image_descriptions (openai_api.py lines    *)
(* 171-204) and _process_image_batch (lines 206-269).                      *)
(*                                                                         *)
(* An image is named by its identity, its position in the argument.  What  *)
(* the service says about image id is the text Body(id), so that the       *)
(* string returned for a position tells which image the service wrote it   *)
(* for.  The service is free to reply with one item per image (numbered in *)
(* one of four ways, in order or reversed, or as paragraphs), in another   *)
(* format, with too few or too many items, with any short text, with no    *)
(* content, or to fail.                                                    *)
(***************************************************************************)
MaxSmallBatch == 3
MaxOverflow == 1
MaxReplyLen == 3

\* line 183
MAX_BATCH_SIZE == 30

ReplyAlphabet == { "1", "2", ".", "\n", " ", "a", "*" }

Body(id) == << "w" >> \o Decimal(id)

Styles == { "dot", "colon", "image", "hash", "reversed", "bold", "para", "plain" }
ItemisedStyles == { "dot", "colon", "image", "hash", "reversed", "para" }

ItemPrefix(style, j) ==
    CASE style \in { "dot", "reversed" } -> Decimal(j) \o << ".", " " >>
      [] style = "colon" -> Decimal(j) \o << ":", " " >>
      [] style = "image" -> ImageWord \o << " " >> \o Decimal(j) \o << ":", " " >>
      [] style = "hash" -> ImageWord \o << " ", "#" >> \o Decimal(j) \o << ":", " " >>
      [] style = "bold" -> << "*", "*" >> \o Decimal(j) \o << ".", "*", "*", " " >>
      [] OTHER -> << >>

ItemSeparator(style) == IF style = "para" THEN << "\n", "\n" >> ELSE << "\n" >>

\* a reply of k items about the images first, first + 1, ..., item j being
\* numbered j
RECURSIVE ItemsText(_, _, _, _)
ItemsText(style, first, j, k) ==
    IF j > k THEN << >>
    ELSE LET item == ItemPrefix(style, j) \o Body(first + j - 1)
             rest == ItemsText(style, first, j + 1, k)
         IN  IF j = k THEN item
             ELSE IF style = "reversed" THEN rest \o ItemSeparator(style) \o item
             ELSE item \o ItemSeparator(style) \o rest

\* a reply about three images that numbers nothing:
\* "First image shows a chart.\n\nSecond: a person.\nLast one is a map."
UnnumberedReply ==
    << "F", "i", "r", "s", "t", " ", "i", "m", "a", "g", "e", " ", "s",
       "h", "o", "w", "s", " ", "a", " ", "c", "h", "a", "r", "t", ".",
       "\n", "\n", "S", "e", "c", "o", "n", "d", ":", " ", "a", " ", "p",
       "e", "r", "s", "o", "n", ".", "\n", "L", "a", "s", "t", " ", "o",
       "n", "e", " ", "i", "s", " ", "a", " ", "m", "a", "p", "." >>

TextReply(form, text) == [kind |-> "text", form |-> form, exc |-> "none", text |-> text]

\* what chat.completions.create may do when asked about the images of batch
Replies(batch) ==
    LET n == Len(batch)
        first == IF n = 0 THEN 1 ELSE batch[1]
    IN  { [kind |-> "raise", form |-> "none", exc |-> e, text |-> << >>] : e \in Exceptions }
        \cup { [kind |-> "none", form |-> "none", exc |-> "none", text |-> << >>] }
        \cup { TextReply(IF style \in ItemisedStyles /\ k = n THEN "itemised" ELSE "other",
                         ItemsText(style, first, 1, k)) :
                 style \in Styles, k \in { c \in { n - 1, n, n + 1 } : c >= 1 } }
        \cup { TextReply("other", t) :
                 t \in SeqsUpTo(ReplyAlphabet, IF n <= MaxSmallBatch THEN MaxReplyLen ELSE 1) }
        \cup (IF n = 3 THEN { TextReply("other", UnnumberedReply) } ELSE {})

\* _process_image_batch, lines 206-269: the exception raised, the list
\* that line 251 got from the parser and the list returned.  With no
\* content in the reply, re.findall(pattern, None) raises TypeError
ProcessImageBatch(reply, n) ==
    IF reply.kind = "raise"
      THEN [raised |-> reply.exc, descriptions |-> << >>, value |-> << >>]
    ELSE IF reply.kind = "none"
      THEN [raised |-> "TypeError", descriptions |-> << >>, value |-> << >>]
    ELSE Bind(ParseNumberedDescriptions(reply.text, n), LAMBDA descriptions :
           IF descriptions.raised # "none"
             THEN [raised |-> descriptions.raised, descriptions |-> << >>,
                   value |-> << >>]
             ELSE [raised |-> "none",
                   descriptions |-> descriptions.value,
                   value |-> [i \in 1..Len(descriptions.value) |->
                                 CleanDescription(descriptions.value[i])]])

\* line 204; str(e) is the name of the exception
ErrorDescription(exc) == << "[Image description error: ", exc, "...]" >>

\* line 201: except Exception
CaughtInDescribe(exc) ==
    exc \in Exceptions \cup { "TypeError", "ZeroDivisionError" }

Sizes ==
    (0..MaxSmallBatch) \cup (MAX_BATCH_SIZE..(MAX_BATCH_SIZE + MaxOverflow))

InitDescribe ==
    /\ xInit({}, {}, 0) /\ n_pdfs = 0 /\ env_MAX_IMAGES = 1
    /\ aIdle /\ oIdle /\ sIdle
    /\ dpc = "start"
    /\ \E n \in Sizes : d_images = [i \in 1..n |-> i]
    /\ batch_start = 0
    /\ all_descriptions = << >>
    /\ replies = << >>
    /\ d_raised = "none"
    /\ d_attempt_number = 1
    /\ d_outcome = [kind |-> "none"]

\* lines 178-187
BeginDescribe ==
    /\ dpc = "start"
    /\ IF Len(d_images) > MAX_BATCH_SIZE
         THEN /\ all_descriptions' = << >>
              /\ batch_start' = 0
              /\ dpc' = "loop"
         ELSE /\ dpc' = "single"
              /\ UNCHANGED << all_descriptions, batch_start >>
    /\ UNCHANGED << d_images, replies, d_raised, d_attempt_number, d_outcome >>
    /\ UNCHANGED << xvars, avars, ovars, svars >>

\* lines 190-194: one iteration of the loop over range(0, len(images), 30)
DescribeBatch ==
    /\ dpc = "loop"
    /\ batch_start < Len(d_images)
    /\ LET last == IF batch_start + MAX_BATCH_SIZE < Len(d_images)
                     THEN batch_start + MAX_BATCH_SIZE ELSE Len(d_images)
           batch == SubSeq(d_images, batch_start + 1, last)
       IN  \E reply \in Replies(batch) :
             \E batch_descriptions \in { ProcessImageBatch(reply, Len(batch)) } :
                 /\ replies' = Append(replies,
                                      [batch |-> batch, reply |-> reply,
                                       descriptions |->
                                           batch_descriptions.descriptions])
                 /\ IF batch_descriptions.raised = "none"
                      THEN /\ all_descriptions' =
                                all_descriptions \o batch_descriptions.value
                           /\ batch_start' = batch_start + MAX_BATCH_SIZE
                           /\ UNCHANGED << dpc, d_raised >>
                      ELSE /\ d_raised' = batch_descriptions.raised
                           /\ dpc' = "except"
                           /\ UNCHANGED << all_descriptions, batch_start >>
    /\ UNCHANGED << d_images, d_attempt_number, d_outcome >>
    /\ UNCHANGED << xvars, avars, ovars, svars >>

\* line 196
ReturnAll ==
    /\ dpc = "loop"
    /\ batch_start >= Len(d_images)
    /\ d_outcome' = [kind |-> "return", value |-> all_descriptions]
    /\ dpc' = "done"
    /\ UNCHANGED << d_images, batch_start, all_descriptions, replies, d_raised,
                    d_attempt_number >>
    /\ UNCHANGED << xvars, avars, ovars, svars >>

\* line 199: at most MAX_BATCH_SIZE images, none included, make one batch
DescribeSingle ==
    /\ dpc = "single"
    /\ \E reply \in Replies(d_images) :
         \E batch_descriptions \in { ProcessImageBatch(reply, Len(d_images)) } :
             /\ replies' = Append(replies,
                                  [batch |-> d_images, reply |-> reply,
                                   descriptions |->
                                       batch_descriptions.descriptions])
             /\ IF batch_descriptions.raised = "none"
                  THEN /\ d_outcome' = [kind |-> "return",
                                        value |-> batch_descriptions.value]
                       /\ dpc' = "done"
                       /\ UNCHANGED d_raised
                  ELSE /\ d_raised' = batch_descriptions.raised
                       /\ dpc' = "except"
                       /\ UNCHANGED d_outcome
    /\ UNCHANGED << d_images, batch_start, all_descriptions, d_attempt_number >>
    /\ UNCHANGED << xvars, avars, ovars, svars >>

\* lines 201-204 and the decorator of lines 171-175: an exception caught in
\* the body is returned as one error string per image; one that leaves the
\* body is retried when RetryIf holds and attempts remain
DescribeFailed ==
    /\ dpc = "except"
    /\ IF CaughtInDescribe(d_raised)
         THEN /\ d_outcome' = [kind |-> "return",
                               value |-> [i \in 1..Len(d_images) |->
                                             ErrorDescription(d_raised)]]
              /\ dpc' = "done"
              /\ UNCHANGED << d_attempt_number, replies, d_raised >>
         ELSE IF RetryIf(d_raised) /\ d_attempt_number < MaxAttempts
         THEN /\ d_attempt_number' = d_attempt_number + 1
              /\ dpc' = "start"
              /\ replies' = << >>
              /\ d_raised' = "none"
              /\ UNCHANGED d_outcome
         ELSE /\ d_outcome' = [kind |-> "raise",
                               exc |-> IF RetryIf(d_raised) THEN "RetryError"
                                                            ELSE d_raised]
              /\ dpc' = "done"
              /\ UNCHANGED << d_attempt_number, replies, d_raised >>
    /\ UNCHANGED << d_images, batch_start, all_descriptions >>
    /\ UNCHANGED << xvars, avars, ovars, svars >>

NextDescribe ==
    \/ BeginDescribe
    \/ DescribeBatch
    \/ ReturnAll
    \/ DescribeSingle
    \/ DescribeFailed

SpecDescribe == InitDescribe /\ [][NextDescribe]_vars

(***************************************************************************)
(* Properties of batch_generate_image_descriptions.                        *)
(***************************************************************************)
\* the entry of replies for the batch that holds position i
BatchOf(i) == ((i - 1) \div MAX_BATCH_SIZE) + 1

\* the string at position i is the one written for the image at position i:
\* after a failed call it is the error string; otherwise the image is in the
\* batch of one answered call, at the position the string has in that batch,
\* and when the reply holds one item per image (numbered, in any order, or
\* as paragraphs) the string is the item of the image, cleaned
BelongsTo(s, i) ==
    IF d_raised # "none" THEN s = ErrorDescription(d_raised)
    ELSE /\ BatchOf(i) \in 1..Len(replies)
         /\ LET r == replies[BatchOf(i)]
                slot == i - (BatchOf(i) - 1) * MAX_BATCH_SIZE
            IN  /\ slot \in 1..Len(r.batch)
                /\ r.batch[slot] = d_images[i]
                /\ r.reply.kind = "text"
                /\ r.reply.form = "itemised" =>
                      s = << "W" >> \o Decimal(d_images[i])

\* C1: whatever the number of images (none, one, at most 30, more than 30)
\* and whatever the service replies (numbered as asked, in another format,
\* empty, without content, or a failing call), the call returns a list with
\* exactly one string per image, the string at position i being the one for
\* the image at position i.
C1_ExactlyNInOrder ==
    dpc = "done" =>
        /\ d_outcome.kind = "return"
        /\ Len(d_outcome.value) = Len(d_images)
        /\ \A i \in 1..Len(d_images) : BelongsTo(d_outcome.value[i], i)

\* a call on more than 30 images is done: the first batch was answered with
\* one item per image, the second otherwise
C1_Witness ==
    /\ dpc = "done"
    /\ Len(d_images) > MAX_BATCH_SIZE
    /\ d_raised = "none"
    /\ Len(replies) = 2
    /\ replies[1].reply.form = "itemised"
    /\ replies[2].reply.kind = "text"
    /\ replies[2].reply.form = "other"
    /\ replies[2].reply.text # << >>
    /\ Len(d_outcome.value) = Len(d_images)

\* C15: every description returned is a non-empty string; a slot for which
\* the reply gave no text holds a placeholder text.
C15_NoEmptyDescription ==
    (dpc = "done" /\ d_outcome.kind = "return") =>
        \A i \in 1..Len(d_outcome.value) : d_outcome.value[i] # << >>

\* what the strategies make of the text t for n images, each on its own:
\* the numbered items when they fill the n slots, the texts of the numbered
\* lines, the paragraphs, the n chunks of equal length
NumberedItems(t, n) == Strategy1(t, n)
LineTexts(t) == StripAll(NonEmpty(NumberedLines(SplitLines(t))))
ParagraphTexts(t) == NonEmpty(StripAll(SplitParagraphs(t)))
Chunks(t, n) == IF n = 0 THEN << >> ELSE EvenSplit(t, n)

\* the strategy whose output is returned: the first that yields n texts
StrategyUsed(t, n) ==
    IF NumberedItems(t, n).ok THEN 1
    ELSE IF Len(LineTexts(t)) = n THEN 2
    ELSE IF Len(ParagraphTexts(t)) = n THEN 3
    ELSE 4

\* the service call made last was answered with a text
Answered ==
    /\ replies # << >>
    /\ replies[Len(replies)].reply.kind = "text"

\* C16: the list the parser returns for a reply about n images is the output
\* of the first strategy, in the order numbered items, numbered lines,
\* paragraphs, even split, that yields exactly n descriptions.
C16_FirstStrategyThatYieldsN ==
    Answered =>
        LET r == replies[Len(replies)]
            t == r.reply.text
            n == Len(r.batch)
            used == StrategyUsed(t, n)
        IN  /\ Len(r.descriptions) = n
            /\ r.descriptions =
                 CASE used = 1 -> NumberedItems(t, n).value
                   [] used = 2 -> LineTexts(t)
                   [] used = 3 -> ParagraphTexts(t)
                   [] OTHER -> Chunks(t, n)

\* the reply that numbers nothing is cut into 3 chunks, none empty
C16_Witness ==
    /\ dpc = "done"
    /\ Answered
    /\ replies[1].reply.text = UnnumberedReply
    /\ StrategyUsed(UnnumberedReply, 3) = 4
    /\ Len(d_outcome.value) = 3
    /\ \A i \in 1..3 : d_outcome.value[i] # << >>
    /\ d_outcome.value[1] = SubSeq(UnnumberedReply, 1, 21)

\* the texts of a list put one after the other
RECURSIVE Joined(_)
Joined(texts) == IF texts = << >> THEN << >> ELSE Head(texts) \o Joined(Tail(texts))

\* C17: when the even split is used for n >= 1 images, the reply is cut into
\* n consecutive chunks of equal length that together are the whole reply.
C17_EvenSplitLosesNothing ==
    Answered =>
        LET r == replies[Len(replies)]
            t == r.reply.text
            n == Len(r.batch)
        IN  (n >= 1 /\ StrategyUsed(t, n) = 4) =>
                /\ Len(r.descriptions) = n
                /\ \A i, j \in 1..n : Len(r.descriptions[i]) = Len(r.descriptions[j])
                /\ Joined(r.descriptions) = t

(***************************************************************************)
(* OCRProcessor.process_images (ocr.py): a first pass reads every image    *)
(* (Tesseract, then the file as base64), a second pass,                    *)
(* _add_image_descriptions, asks for a description of every image that has *)
(* image data, batch by batch, sleeping between items and between batches. *)
(***************************************************************************)
MaxOcrSmall == 6
MaxOcrOverflow == 1

\* line 78: batch_size = min(5, len(images))
BatchSizeLimit == 5
\* line 79
delay_between_batches == 15
\* line 82: if len(images) > 30
TooManyImages == 30
\* lines 86, 89: images[:20]
DescribedWhenTooMany == 20

\* what the file at img_data["path"] is: an image with text, an image
\* without text, a file PIL cannot read, no file at all
FileKinds == { "text", "blank", "corrupt", "missing" }

\* lines 156-213: _tesseract_ocr never raises, it returns a text
_tesseract_ocr(file) ==
    CASE file = "text" -> "text"
      [] file = "blank" -> "[No text detected in image]"
      [] OTHER -> "[Could not process corrupt image]"

\* lines 44-47: open(image_path, "rb") and the data URL made of the bytes
FileOpens(file) == file # "missing"

ImageDataOf(img) == << "data:image", img.filename >>

\* one element of the argument of process_images (test_ocr.py, lines 23-27)
Img(k, file) == [filename |-> k, page |-> (k + 1) \div 2, file |-> file]

\* n images with text, but for at most one file of another kind
OneOdd(n) ==
    { [k \in 1..n |-> Img(k, "text")] }
    \cup { [k \in 1..n |-> Img(k, IF k = m THEN file ELSE "text")] :
              m \in 1..n, file \in FileKinds \ { "text" } }

\* up to MaxOcrSmall images, each with text or missing
SmallInputs ==
    UNION { { [k \in 1..n |-> Img(k, f[k])] : f \in [1..n -> { "text", "missing" }] } :
              n \in 0..MaxOcrSmall }

OcrSizes ==
    { 2 * BatchSizeLimit, 2 * BatchSizeLimit + 1 }
    \cup (TooManyImages..(TooManyImages + MaxOcrOverflow))

OcrInputs == SmallInputs \cup UNION { OneOdd(n) : n \in OcrSizes }

\* lines 48-65: the record of one image after the first pass
FirstPassRecord(img) ==
    IF FileOpens(img.file)
      THEN [filename |-> img.filename, page |-> img.page,
            ocr_text |-> _tesseract_ocr(img.file),
            image_description |-> "", image_data |-> ImageDataOf(img)]
      ELSE [filename |-> img.filename, page |-> img.page,
            ocr_text |-> _tesseract_ocr(img.file),
            image_description |-> "[Image description failed]",
            image_data |-> << >>]

Skipped_after_21(n, i) == n > TooManyImages /\ i > DescribedWhenTooMany

\* lines 82-91: the images after position 20 of a list of more than 30
Skipped(n, i) == n > TooManyImages /\ i >= DescribedWhenTooMany

WithSkipped(recs) ==
    [k \in 1..Len(recs) |->
        IF Skipped(Len(recs), k - 1)
          THEN [recs[k] EXCEPT !.image_description =
                    "[Image description skipped - too many images]"]
          ELSE recs[k]]

ImagesToProcess(n) == IF n > TooManyImages THEN DescribedWhenTooMany ELSE n

\* line 112: OpenAIHandler (openai_api.py) defines no attribute
\* generate_image_description, so the lookup raises before any call is made
generate_image_description(image_data) ==
    [raised |-> "AttributeError",
     message |-> "'OpenAIHandler' object has no attribute 'generate_image_description'"]

\* lines 112-119: the description an image ends with
DescriptionOf(image_data) ==
    Bind(generate_image_description(image_data), LAMBDA r :
        IF r.raised = "none" THEN r.value
        ELSE << "[Description error: ", r.message, "...]" >>)

PauseFollows_always(i, batch_size, n) == TRUE

\* line 122: a sleep follows the batch that starts at i
PauseFollows(i, batch_size, n) == i + batch_size < n

\* an entry of o_events; arg is the position of the image, or the seconds slept
Event(kind, k) == [kind |-> kind, arg |-> k]

oUnchanged == UNCHANGED << xvars, avars, dvars, svars >>

\* process_images is called with a list of images
oStart(imgs) ==
    /\ opc = "ocr"
    /\ o_images = imgs
    /\ o_result = << >>
    /\ o_batch_size = 0
    /\ o_to_process = 0
    /\ o_i = 0
    /\ o_j = 0
    /\ o_events = << >>
    /\ o_outcome = [kind |-> "none"]

InitOcr ==
    /\ xInit({}, {}, 0) /\ n_pdfs = 0 /\ env_MAX_IMAGES = 1
    /\ aIdle /\ dIdle /\ sIdle
    /\ \E imgs \in OcrInputs : oStart(imgs)

\* lines 30-65: one iteration of the first pass
OcrImage ==
    /\ opc = "ocr"
    /\ Len(o_result) < Len(o_images)
    /\ o_result' = Append(o_result, FirstPassRecord(o_images[Len(o_result) + 1]))
    /\ UNCHANGED << opc, o_images, o_batch_size, o_to_process, o_i, o_j,
                    o_events, o_outcome >>
    /\ oUnchanged

\* lines 68, 73-93: the second pass begins; range() raises ValueError for a
\* step of 0, and nothing in process_images catches it
BeginDescriptions ==
    /\ opc = "ocr"
    /\ Len(o_result) = Len(o_images)
    /\ o_batch_size' = (IF Len(o_result) < BatchSizeLimit THEN Len(o_result)
                        ELSE BatchSizeLimit)
    /\ o_result' = WithSkipped(o_result)
    /\ o_to_process' = ImagesToProcess(Len(o_result))
    /\ IF o_batch_size' = 0
         THEN /\ opc' = "raised"
              /\ o_outcome' = [kind |-> "raised", error |-> "ValueError"]
         ELSE /\ opc' = "batch"
              /\ UNCHANGED o_outcome
    /\ UNCHANGED << o_images, o_i, o_j, o_events >>
    /\ oUnchanged

\* lines 93-95 and 70-71: the next batch starts, or process_images returns
NextBatch ==
    /\ opc = "batch"
    /\ IF o_i < o_to_process
         THEN /\ opc' = "item"
              /\ o_j' = 0
              /\ UNCHANGED o_outcome
         ELSE /\ opc' = "done"
              /\ o_outcome' = [kind |-> "returned", processed_images |-> o_result]
              /\ UNCHANGED o_j
    /\ UNCHANGED << o_images, o_result, o_batch_size, o_to_process, o_i,
                    o_events >>
    /\ oUnchanged

\* len(batch) of line 94
BatchLen(i, batch_size, n) == IF i + batch_size <= n THEN batch_size ELSE n - i

\* lines 97-109: the next image of the batch; one without image data is
\* passed over, any but the first of a batch waits in time.sleep(delay)
BeginItem ==
    /\ opc = "item"
    /\ o_j < BatchLen(o_i, o_batch_size, o_to_process)
    /\ \E k \in { o_i + o_j + 1 } :
          IF o_result[k].image_data = << >>
            THEN /\ o_events' = Append(o_events, Event("no_data", k))
                 /\ o_j' = o_j + 1
                 /\ UNCHANGED opc
            ELSE IF o_j > 0
              THEN /\ o_events' = Append(o_events, Event("delay", k))
                   /\ opc' = "delay"
                   /\ UNCHANGED o_j
              ELSE /\ opc' = "call"
                   /\ UNCHANGED << o_j, o_events >>
    /\ UNCHANGED << o_images, o_result, o_batch_size, o_to_process, o_i,
                    o_outcome >>
    /\ oUnchanged

\* line 109: time.sleep(delay) returns
DelayOver ==
    /\ opc = "delay"
    /\ opc' = "call"
    /\ UNCHANGED << o_images, o_result, o_batch_size, o_to_process, o_i, o_j,
                    o_events, o_outcome >>
    /\ oUnchanged

\* lines 112-119: the description of one image is asked for
DescribeItem ==
    /\ opc = "call"
    /\ \E k \in { o_i + o_j + 1 } :
          /\ o_events' = Append(o_events, Event("call", k))
          /\ o_result' = [o_result EXCEPT ![k].image_description =
                              DescriptionOf(o_result[k].image_data)]
    /\ o_j' = o_j + 1
    /\ opc' = "item"
    /\ UNCHANGED << o_images, o_batch_size, o_to_process, o_i, o_outcome >>
    /\ oUnchanged

\* lines 121-124: the batch is over; time.sleep(delay_between_batches)
\* unless it was the last one
EndBatch ==
    /\ opc = "item"
    /\ o_j = BatchLen(o_i, o_batch_size, o_to_process)
    /\ IF PauseFollows(o_i, o_batch_size, o_to_process)
         THEN /\ o_events' = Append(o_events, Event("pause", delay_between_batches))
              /\ opc' = "pause"
              /\ UNCHANGED o_i
         ELSE /\ o_i' = o_i + o_batch_size
              /\ opc' = "batch"
              /\ UNCHANGED o_events
    /\ UNCHANGED << o_images, o_result, o_batch_size, o_to_process, o_j,
                    o_outcome >>
    /\ oUnchanged

\* line 124: time.sleep(delay_between_batches) returns
PauseOver ==
    /\ opc = "pause"
    /\ o_i' = o_i + o_batch_size
    /\ opc' = "batch"
    /\ UNCHANGED << o_images, o_result, o_batch_size, o_to_process, o_j,
                    o_events, o_outcome >>
    /\ oUnchanged

NextOcr ==
    \/ OcrImage
    \/ BeginDescriptions
    \/ NextBatch
    \/ BeginItem
    \/ DelayOver
    \/ DescribeItem
    \/ EndBatch
    \/ PauseOver

SpecOcr == InitOcr /\ [][NextOcr]_vars

(***************************************************************************)
(* Properties of process_images.                                           *)
(***************************************************************************)
\* the places of o_events before place q where an image was handled (passed
\* over for want of image data, or its description asked for)
HandledBefore(q) ==
    { p \in 1..(q - 1) : o_events[p].kind \in { "no_data", "call" } }

\* the places of o_events before place q where the run slept between batches
PausesBefore(q) == { p \in 1..(q - 1) : o_events[p].kind = "pause" }

oEnd == Len(o_events) + 1

\* C22: the images are handled in input order in consecutive batches of at
\* most 5: the image at position p is handled after exactly (p - 1) \div 5
\* pauses of 15 s, so that every image of a batch comes before any image of
\* the next and one pause separates two consecutive batches; when the run
\* is over every image to process was handled and no pause follows the last
\* batch.
C22_BatchesInOrder ==
    /\ \A q \in 1..Len(o_events) :
          /\ o_events[q].kind \in { "no_data", "call" } =>
                /\ o_events[q].arg = Cardinality(HandledBefore(q)) + 1
                /\ Cardinality(PausesBefore(q)) =
                      (o_events[q].arg - 1) \div BatchSizeLimit
          /\ o_events[q].kind = "pause" =>
                /\ o_events[q].arg = 15
                /\ Cardinality(HandledBefore(q)) =
                      BatchSizeLimit * (Cardinality(PausesBefore(q)) + 1)
    /\ opc = "done" =>
          /\ Cardinality(HandledBefore(oEnd)) = o_to_process
          /\ Cardinality(PausesBefore(oEnd)) =
                (o_to_process - 1) \div BatchSizeLimit
          /\ o_events[Len(o_events)].kind # "pause"

\* eleven images, one of them without image data, were handled in three
\* batches with two pauses
C22_Witness ==
    /\ opc = "done"
    /\ Len(o_images) = 2 * BatchSizeLimit + 1
    /\ Cardinality(PausesBefore(oEnd)) = 2
    /\ \E q \in 1..Len(o_events) : o_events[q] = Event("no_data", 7)
    /\ o_events[Len(o_events)] = Event("call", 11)

\* the descriptions asked for, in the order of the run
EnrichmentCalls == SelectSeq(o_events, LAMBDA e : e.kind = "call")

\* line 95: the number of batches of the run
NumBatches == (o_to_process + o_batch_size - 1) \div o_batch_size

\* line 94: the positions of the images of batch b (b = 1, 2, ...)
BatchPositions(b) ==
    { k \in 1..o_to_process :
        (b - 1) * o_batch_size < k /\ k <= b * o_batch_size }

\* the images of batch b that have image data
WithData(b) == { k \in BatchPositions(b) : o_result[k].image_data # << >> }

\* C23: when the run is over there is exactly one enrichment call for every
\* batch that holds an image with image data, and that call carries all
\* those images of the batch, so the number of calls is the number of
\* batches and not the number of images.
C23_OneCallPerBatch ==
    opc = "done" =>
        /\ Len(EnrichmentCalls) =
              Cardinality({ b \in 1..NumBatches : WithData(b) # {} })
        /\ \A b \in 1..NumBatches : WithData(b) # {} =>
              \E q \in 1..Len(EnrichmentCalls) :
                  { EnrichmentCalls[q].arg } = WithData(b)

(***************************************************************************)
(* The server of main.py.  uvicorn runs the application on one asyncio     *)
(* event loop: a coroutine holds the loop's thread from the moment it is   *)
(* resumed until it awaits or returns.  cleanup_old_sessions awaits        *)
(* asyncio.sleep after each pass; process_pdf is declared async but awaits *)
(* nothing: extraction, process_images (with its time.sleep calls) and the *)
(* analysis run inside the coroutine, on the loop's thread.                *)
(***************************************************************************)
MaxCleanupPasses == 2

Docs == { "doc1", "doc2" }

\* the images extraction found for a request: none, one batch, two batches
ServerInputs ==
    { [k \in 1..n |-> Img(k, "text")] : n \in { 0, 2, BatchSizeLimit + 1 } }

\* lines 59-70: lifespan has created the cleanup task; no request yet
InitServer ==
    /\ xInit({}, {}, 0) /\ n_pdfs = 0 /\ env_MAX_IMAGES = 1
    /\ aIdle /\ dIdle /\ oIdle
    /\ loop_running = "none"
    /\ task_state = [t \in Tasks |-> IF t = "cleanup" THEN "ready" ELSE "absent"]
    /\ cleanup_passes = 0

\* a client posts a document to /api/process-pdf (line 109): the request
\* waits for the loop
Submit(d) ==
    /\ task_state[d] = "absent"
    /\ task_state' = [task_state EXCEPT ![d] = "ready"]
    /\ UNCHANGED << loop_running, cleanup_passes >>
    /\ UNCHANGED << xvars, avars, dvars, ovars >>

\* lines 110-156: the loop resumes the handler of a waiting request, which
\* saves and extracts the document and, if images were found, enters
\* process_images
StartRequest(d) ==
    /\ loop_running = "none"
    /\ task_state[d] = "ready"
    /\ loop_running' = d
    /\ task_state' = [task_state EXCEPT ![d] = "running"]
    /\ \E imgs \in ServerInputs :
          IF imgs = << >>
            THEN UNCHANGED << opc, o_images >>
            ELSE /\ opc' = "ocr"
                 /\ o_images' = imgs
    /\ UNCHANGED << o_result, o_batch_size, o_to_process, o_i, o_j, o_events,
                    o_outcome >>
    /\ UNCHANGED cleanup_passes
    /\ UNCHANGED << xvars, avars, dvars >>

\* lines 157-209: process_images is over (or was not called); the handler
\* builds its response and returns, which frees the loop
FinishRequest(d) ==
    /\ loop_running = d
    /\ opc \in { "idle", "done", "raised" }
    /\ loop_running' = "none"
    /\ task_state' = [task_state EXCEPT ![d] = "done"]
    /\ opc' = "idle"
    /\ o_images' = << >>
    /\ o_result' = << >>
    /\ o_batch_size' = 0
    /\ o_to_process' = 0
    /\ o_i' = 0
    /\ o_j' = 0
    /\ o_events' = << >>
    /\ o_outcome' = [kind |-> "none"]
    /\ UNCHANGED cleanup_passes
    /\ UNCHANGED << xvars, avars, dvars >>

\* lines 33-54: the loop resumes the cleanup task, which makes one pass over
\* the session directories and awaits asyncio.sleep
CleanupPass ==
    /\ loop_running = "none"
    /\ task_state["cleanup"] = "ready"
    /\ task_state' = [task_state EXCEPT !["cleanup"] = "sleeping"]
    /\ cleanup_passes' = cleanup_passes + 1
    /\ UNCHANGED loop_running
    /\ UNCHANGED << xvars, avars, dvars, ovars >>

\* line 54: the hour of asyncio.sleep is over, the task waits for the loop
CleanupTimer ==
    /\ task_state["cleanup"] = "sleeping"
    /\ cleanup_passes < MaxCleanupPasses
    /\ task_state' = [task_state EXCEPT !["cleanup"] = "ready"]
    /\ UNCHANGED << loop_running, cleanup_passes >>
    /\ UNCHANGED << xvars, avars, dvars, ovars >>

NextServer ==
    \/ \E d \in Docs : Submit(d)
    \/ \E d \in Docs : StartRequest(d)
    \/ \E d \in Docs : FinishRequest(d)
    \/ CleanupPass
    \/ CleanupTimer
    \/ OcrImage
    \/ BeginDescriptions
    \/ NextBatch
    \/ BeginItem
    \/ DelayOver
    \/ DescribeItem
    \/ EndBatch
    \/ PauseOver

SpecServer == InitServer /\ [][NextServer]_vars

\* the step with which the loop resumes a waiting task
Resume(t) == IF t = "cleanup" THEN CleanupPass ELSE StartRequest(t)

\* C24: while the processing of one document is in an inter-item delay or an
\* inter-batch pause, every other task that waits for the loop (another
\* submitted document, the cleanup task) can take its next step.
C24_DelayDoesNotBlock ==
    \A t \in Tasks :
        (opc \in { "delay", "pause" } /\ task_state[t] = "ready")
            => ENABLED Resume(t)

\* C25: process_images ends by returning, for every input list, a list with
\* one record per input image, in input order, each with the filename and
\* the page of its input image.
C25_OneRecordPerImage ==
    opc \in { "done", "raised" } =>
        /\ o_outcome.kind = "returned"
        /\ Len(o_outcome.processed_images) = Len(o_images)
        /\ \A k \in 1..Len(o_images) :
              /\ o_outcome.processed_images[k].filename = o_images[k].filename
              /\ o_outcome.processed_images[k].page = o_images[k].page

\* the description of the image at position k was asked for
Attempted(k) == \E q \in 1..Len(o_events) : o_events[q] = Event("call", k)

\* C26: at the end of _add_image_descriptions, of more than 30 images exactly
\* those at positions 21 and later hold the 'description skipped' placeholder
\* and no description was asked for them, while it was asked for those of the
\* first 20 that have image data; of 30 images or fewer it was asked for every
\* image that has image data; an image without image data among those
\* processed keeps the failure placeholder of the first pass.
C26_SkipBeyondTwenty ==
    opc \in { "done", "raised" } =>
        \A k \in 1..Len(o_result) :
            Bind(o_result[k], LAMBDA img :
                IF Len(o_result) > 30 /\ k >= 21
                  THEN /\ img.image_description =
                            "[Image description skipped - too many images]"
                       /\ ~Attempted(k)
                  ELSE /\ img.image_description #
                            "[Image description skipped - too many images]"
                       /\ Attempted(k) <=> img.image_data # << >>
                       /\ img.image_data = << >> =>
                            img.image_description = "[Image description failed]")

\* 31 images, one of the first 20 without image data: the 20th was asked
\* for, the 21st was skipped
C26_Witness ==
    /\ opc = "done"
    /\ Len(o_result) = 31
    /\ Attempted(20) /\ ~Attempted(21)
    /\ o_result[21].image_description =
          "[Image description skipped - too many images]"
    /\ o_result[31].image_data # << >>
    /\ \E k \in 1..20 : o_result[k].image_description = "[Image description failed]"

====
